---- MODULE Spec2Model ----
(***************************************************************************)
(* Model of the repoviewer front end: the token store and the three fetch  *)
(* paths that handle authentication rejection (services/github.ts,         *)
(* ReadmeViewer.tsx, ProfileSidebar.tsx), and the repository content       *)
(* viewer (RepoContentViewer.tsx).                                         *)
(***************************************************************************)
EXTENDS Integers, Sequences, FiniteSets, Bags, TLC

(***************************************************************************)
(* Values                                                                  *)
(***************************************************************************)
\* JavaScript null / undefined
Null == "null"

\* JavaScript truthiness of a string-or-null value
Truthy(v) == v # Null /\ v # ""

\* values of process.env.REACT_APP_GITHUB_TOKEN at startup
EnvValues == {Null, "e1"}

\* values of localStorage['github_token'] left by an earlier session
PersistedValues == {Null, "t1"}

\* what the user can answer to window.prompt: cancel, empty OK, a token
PromptAnswers == {Null, "", "t2"}

\* HTTP statuses the provider answers with
Statuses == {200, 401, 403, 404, 500}

\* the fetch paths that handle authentication rejection
Paths == {"repos", "readme", "profile"}

\* most automatic re-issues of one user-initiated fetch that the model follows
MaxReissues == 2

VARIABLES
  env,          \* process.env.REACT_APP_GITHUB_TOKEN
  envAtStartup, \* its value when the application started
  github_token, \* localStorage['github_token']
  pc,           \* per fetch path: idle, inflight, inflight2, done, error
  req,          \* per fetch path: the request in flight
  reissues,     \* per fetch path: automatic re-issues of the current fetch
  prompts,      \* per fetch path: prompts shown by the current fetch
  loading,      \* per fetch path: the component's loading flag
  uiError,      \* per fetch path: the component's error state
  lastHandled   \* the most recent response handled by a fetch path

authVars == <<env, envAtStartup, github_token, pc, req, reissues, prompts,
              loading, uiError, lastHandled>>

(***************************************************************************)
(* Token store (services/github.ts)                                        *)
(***************************************************************************)
\* a token store that prefers the persisted token
getGitHubToken_PersistedFirst(e, ls) ==
  IF Truthy(ls) THEN ls ELSE IF Truthy(e) THEN e ELSE Null

\* envToken || localStorage.getItem('github_token')
getGitHubToken(e, ls) ==
  LET envToken == IF Truthy(e) THEN e ELSE Null
  IN IF Truthy(envToken) THEN envToken ELSE ls

\* localStorage.setItem('github_token', token)
setGitHubToken(ls, token) == token

\* localStorage.removeItem('github_token')
removeItem(ls) == Null

NoRequest == [Authorization |-> Null, Accept |-> "none",
              envAtIssue |-> Null, persistedAtIssue |-> Null]

\* headers of a request built from the token store; the two AtIssue fields
\* record the credentials that existed when the request was built
createHeaders(e, ls) ==
  LET token == getGitHubToken(e, ls)
  IN [Authorization |-> IF Truthy(token) THEN token ELSE Null,
      Accept |-> "application/vnd.github.v3+json",
      envAtIssue |-> e, persistedAtIssue |-> ls]

\* response.statusText
StatusText(status) ==
  CASE status = 200 -> "OK"
    [] status = 401 -> "Unauthorized"
    [] status = 403 -> "Forbidden"
    [] status = 404 -> "Not Found"
    [] status = 500 -> "Internal Server Error"
    [] OTHER -> ""

\* the Error handleApiError throws:
\* `GitHub API error: ${response.status} ${response.statusText}`
ApiError(status) == [status |-> status, statusText |-> StatusText(status)]

\* a handleApiError that prompts although an environment token exists
handleApiError_PromptsWithEnv(status, e, ls, answer) ==
  IF status \in {401, 403}
  THEN LET existingToken == getGitHubToken(e, ls)
           ls1 == IF Truthy(existingToken) THEN removeItem(ls) ELSE ls
       IN [persisted |-> IF Truthy(answer)
                         THEN setGitHubToken(ls1, answer) ELSE ls1,
           removed |-> Truthy(existingToken),
           prompted |-> TRUE, thrown |-> TRUE, error |-> ApiError(status)]
  ELSE [persisted |-> ls, removed |-> FALSE, prompted |-> FALSE,
        thrown |-> TRUE, error |-> ApiError(status)]

\* a handleApiError that returns normally for a status other than 401/403
handleApiError_ThrowsOnlyOnAuth(status, e, ls, answer) ==
  IF status \in {401, 403}
  THEN LET existingToken == getGitHubToken(e, ls)
           ls1 == IF Truthy(existingToken) THEN removeItem(ls) ELSE ls
       IN IF Truthy(e)
          THEN [persisted |-> ls1, removed |-> Truthy(existingToken),
                prompted |-> FALSE, thrown |-> TRUE,
                error |-> ApiError(status)]
          ELSE [persisted |-> IF Truthy(answer)
                              THEN setGitHubToken(ls1, answer) ELSE ls1,
                removed |-> Truthy(existingToken),
                prompted |-> TRUE, thrown |-> TRUE,
                error |-> ApiError(status)]
  ELSE [persisted |-> ls, removed |-> FALSE, prompted |-> FALSE,
        thrown |-> FALSE, error |-> ApiError(0)]

\* a handleApiError that returns normally once the prompt gave a token
handleApiError_ReturnsAfterPrompt(status, e, ls, answer) ==
  IF status \in {401, 403}
  THEN LET existingToken == getGitHubToken(e, ls)
           ls1 == IF Truthy(existingToken) THEN removeItem(ls) ELSE ls
       IN IF Truthy(e)
          THEN [persisted |-> ls1, removed |-> Truthy(existingToken),
                prompted |-> FALSE, thrown |-> TRUE,
                error |-> ApiError(status)]
          ELSE [persisted |-> IF Truthy(answer)
                              THEN setGitHubToken(ls1, answer) ELSE ls1,
                removed |-> Truthy(existingToken),
                prompted |-> TRUE, thrown |-> ~Truthy(answer),
                error |-> ApiError(status)]
  ELSE [persisted |-> ls, removed |-> FALSE, prompted |-> FALSE,
        thrown |-> TRUE, error |-> ApiError(status)]

\* handleApiError(response): its effect on the persisted token, whether it
\* removed the token, whether it prompted, whether it threw, and the error
\* it threw
handleApiError(status, e, ls, answer) ==
  IF status \in {401, 403}
  THEN LET existingToken == getGitHubToken(e, ls)
           ls1 == IF Truthy(existingToken) THEN removeItem(ls) ELSE ls
       IN IF Truthy(e)
          THEN [persisted |-> ls1, removed |-> Truthy(existingToken),
                prompted |-> FALSE, thrown |-> TRUE,
                error |-> ApiError(status)]
          ELSE [persisted |-> IF Truthy(answer)
                              THEN setGitHubToken(ls1, answer) ELSE ls1,
                removed |-> Truthy(existingToken),
                prompted |-> TRUE, thrown |-> TRUE,
                error |-> ApiError(status)]
  ELSE [persisted |-> ls, removed |-> FALSE, prompted |-> FALSE,
        thrown |-> TRUE, error |-> ApiError(status)]

(***************************************************************************)
(* Fetch paths                                                             *)
(***************************************************************************)
NoEvent == [path |-> "none", status |-> 0, envBefore |-> Null,
            persistedBefore |-> Null, persistedAfter |-> Null,
            removed |-> FALSE, prompted |-> 0, supplied |-> FALSE,
            reissued |-> 0, failed |-> FALSE]

\* the record of one handled response
Handled(p, status, before, after, removed, prompted, supplied, reissued,
        failed) ==
  [path |-> p, status |-> status, envBefore |-> env,
   persistedBefore |-> before, persistedAfter |-> after,
   removed |-> removed, prompted |-> prompted, supplied |-> supplied,
   reissued |-> reissued, failed |-> failed]

\* a component starts its fetch (mount, username change, Try Again)
Start(p) ==
  /\ pc[p] \in {"idle", "done", "error"}
  /\ pc' = [pc EXCEPT ![p] = "inflight"]
  /\ req' = [req EXCEPT ![p] = createHeaders(env, github_token)]
  /\ reissues' = [reissues EXCEPT ![p] = 0]
  /\ prompts' = [prompts EXCEPT ![p] = 0]
  /\ loading' = [loading EXCEPT ![p] = TRUE]
  /\ uiError' = [uiError EXCEPT ![p] = Null]
  /\ UNCHANGED <<env, envAtStartup, github_token, lastHandled>>

\* the outcome of handling one response on path p
Finish(p, status, after, removed, prompted, supplied, reissue, err) ==
  /\ reissue => reissues[p] < MaxReissues
  /\ github_token' = after
  /\ lastHandled' = Handled(p, status, github_token, after, removed,
                            prompted, supplied, IF reissue THEN 1 ELSE 0,
                            ~reissue /\ err # Null)
  /\ prompts' = [prompts EXCEPT ![p] = @ + prompted]
  /\ reissues' = [reissues EXCEPT ![p] = IF reissue THEN @ + 1 ELSE @]
  /\ req' = [req EXCEPT ![p] = IF reissue THEN createHeaders(env, after)
                               ELSE NoRequest]
  /\ pc' = [pc EXCEPT ![p] = IF reissue THEN "inflight"
                             ELSE IF err = Null THEN "done" ELSE "error"]
  /\ uiError' = [uiError EXCEPT ![p] = err]
  /\ loading' = [loading EXCEPT ![p] = FALSE]
  /\ UNCHANGED <<env, envAtStartup>>

\* fetchUserRepositories: the response to the repository listing arrives;
\* an error propagates to loadProjects, which sets its error state
fetchUserRepositories(status, answer) ==
  /\ pc["repos"] = "inflight"
  /\ IF status = 200
     THEN Finish("repos", status, github_token, FALSE, 0, FALSE, FALSE, Null)
     ELSE LET h == handleApiError(status, env, github_token, answer)
              n == IF h.prompted THEN 1 ELSE 0
              s == h.prompted /\ Truthy(answer)
          IN IF h.thrown
             THEN Finish("repos", status, h.persisted, h.removed, n, s,
                         FALSE, "Failed to load projects")
             ELSE IF status \in {401, 403}
                  THEN Finish("repos", status, h.persisted, h.removed, n, s,
                              TRUE, Null)
                  ELSE Finish("repos", status, h.persisted, h.removed, n, s,
                              FALSE, Null)

\* ReadmeViewer.fetchReadme: the response to the profile README arrives
fetchReadme(status, answer, answer2) ==
  /\ pc["readme"] = "inflight"
  /\ IF status = 200
     THEN Finish("readme", status, github_token, FALSE, 0, FALSE, FALSE, Null)
     ELSE IF status \in {401, 403}
     THEN LET h == handleApiError(status, env, github_token, answer)
              n == IF h.prompted THEN 1 ELSE 0
              s == h.prompted /\ Truthy(answer)
              token == getGitHubToken(env, h.persisted)
          IN IF ~h.thrown
             THEN Finish("readme", status, h.persisted, h.removed, n, s,
                         TRUE, Null)
             ELSE IF ~Truthy(token) /\ Truthy(answer2)
                  THEN Finish("readme", status,
                              setGitHubToken(h.persisted, answer2),
                              h.removed, n + 1, TRUE, TRUE, Null)
                  ELSE Finish("readme", status, h.persisted, h.removed,
                              IF Truthy(token) THEN n ELSE n + 1, s, FALSE,
                              "Authentication error")
     ELSE IF status = 404
     THEN Finish("readme", status, github_token, FALSE, 0, FALSE, FALSE,
                 "README not found")
     ELSE Finish("readme", status, github_token, FALSE, 0, FALSE, FALSE,
                 "Failed to load README")

\* ProfileSidebar.fetchUserProfile: the response to the user profile arrives
fetchUserProfile(status, answer) ==
  /\ pc["profile"] = "inflight"
  /\ IF status = 200
     THEN /\ pc' = [pc EXCEPT !["profile"] = "inflight2"]
          /\ req' = [req EXCEPT !["profile"] =
                       createHeaders(env, github_token)]
          /\ lastHandled' = Handled("profile", status, github_token,
                                    github_token, FALSE, 0, FALSE, 0, FALSE)
          /\ UNCHANGED <<env, envAtStartup, github_token, reissues,
                         prompts, loading, uiError>>
     ELSE IF status \in {401, 403}
     THEN LET existingToken == getGitHubToken(env, github_token)
              ls1 == IF Truthy(existingToken) THEN removeItem(github_token)
                     ELSE github_token
          IN IF ~Truthy(env)
             THEN IF Truthy(answer)
                  THEN Finish("profile", status, setGitHubToken(ls1, answer),
                              Truthy(existingToken), 1, TRUE, TRUE, Null)
                  ELSE Finish("profile", status, ls1, Truthy(existingToken),
                              1, FALSE, FALSE, "console.error")
             ELSE Finish("profile", status, ls1, Truthy(existingToken), 0,
                         FALSE, FALSE, "console.error")
     ELSE Finish("profile", status, github_token, FALSE, 0, FALSE, FALSE,
                 "console.error")

\* ProfileSidebar.fetchUserProfile: the response to its README request
\* arrives; a rejection is not handled, the links are simply not rebuilt
fetchUserProfileReadme(status) ==
  /\ pc["profile"] = "inflight2"
  /\ pc' = [pc EXCEPT !["profile"] = "done"]
  /\ req' = [req EXCEPT !["profile"] = NoRequest]
  /\ loading' = [loading EXCEPT !["profile"] = FALSE]
  /\ lastHandled' = Handled("profile-readme", status, github_token,
                            github_token, FALSE, 0, FALSE, 0, FALSE)
  /\ UNCHANGED <<env, envAtStartup, github_token, reissues, prompts,
                 uiError>>

AuthInit ==
  /\ env \in EnvValues
  /\ envAtStartup = env
  /\ github_token \in PersistedValues
  /\ pc = [p \in Paths |-> "idle"]
  /\ req = [p \in Paths |-> NoRequest]
  /\ reissues = [p \in Paths |-> 0]
  /\ prompts = [p \in Paths |-> 0]
  /\ loading = [p \in Paths |-> TRUE]
  /\ uiError = [p \in Paths |-> Null]
  /\ lastHandled = NoEvent

AuthNext ==
  \/ \E p \in Paths : Start(p)
  \/ \E status \in Statuses, answer \in PromptAnswers :
       fetchUserRepositories(status, answer)
  \/ \E status \in Statuses, answer \in PromptAnswers,
        answer2 \in PromptAnswers : fetchReadme(status, answer, answer2)
  \/ \E status \in Statuses, answer \in PromptAnswers :
       fetchUserProfile(status, answer)
  \/ \E status \in Statuses : fetchUserProfileReadme(status)

(***************************************************************************)
(* Pure steps of content retrieval: base64 decoding of a file's metadata   *)
(* envelope and normalisation of a directory-listing response              *)
(***************************************************************************)
\* longest byte sequence, listing and branch list the model draws
MaxBytes == 3
MaxEntries == 2
MaxBranchList == 3

\* byte values the payloads are drawn from (0..255)
ByteSamples == {0, 10, 77, 255}

\* characters of an encoded text: 0..63 are the alphabet A-Za-z0-9+/ by
\* value, then "=", "\n", and a character outside the alphabet
Pad == 64
NL == 65
Star == 66

\* the text the viewer shows when the envelope has no usable content
CouldNotDecode == <<-1>>

RECURSIVE SeqsUpTo(_, _)
SeqsUpTo(S, n) ==
  IF n = 0 THEN {<<>>}
  ELSE LET shorter == SeqsUpTo(S, n - 1)
       IN shorter \cup {Append(q, x) : q \in shorter, x \in S}

\* btoa: standard base64 with padding
RECURSIVE btoa(_)
btoa(bytes) ==
  IF Len(bytes) = 0 THEN <<>>
  ELSE IF Len(bytes) = 1
  THEN <<bytes[1] \div 4, (bytes[1] % 4) * 16, Pad, Pad>>
  ELSE IF Len(bytes) = 2
  THEN <<bytes[1] \div 4, (bytes[1] % 4) * 16 + bytes[2] \div 16,
         (bytes[2] % 16) * 4, Pad>>
  ELSE <<bytes[1] \div 4, (bytes[1] % 4) * 16 + bytes[2] \div 16,
         (bytes[2] % 16) * 4 + bytes[3] \div 64, bytes[3] % 64>>
       \o btoa(SubSeq(bytes, 4, Len(bytes)))

\* the provider's line wrapping: a "\n" after each position in breaks
RECURSIVE WithLineBreaks(_, _, _)
WithLineBreaks(text, breaks, i) ==
  IF i > Len(text) THEN <<>>
  ELSE (IF i \in breaks THEN <<text[i], NL>> ELSE <<text[i]>>)
       \o WithLineBreaks(text, breaks, i + 1)

\* data.content.replace(/\n/g, '')
IsNotNewline(c) == c # NL
StripNewlines(text) == SelectSeq(text, IsNotNewline)

\* the bytes of a run of alphabet characters; trailing bits are discarded
RECURSIVE DecodeSextets(_)
DecodeSextets(t) ==
  IF Len(t) < 2 THEN <<>>
  ELSE IF Len(t) = 2 THEN <<t[1] * 4 + t[2] \div 16>>
  ELSE IF Len(t) = 3
  THEN <<t[1] * 4 + t[2] \div 16, (t[2] % 16) * 16 + t[3] \div 4>>
  ELSE <<t[1] * 4 + t[2] \div 16, (t[2] % 16) * 16 + t[3] \div 4,
         (t[3] % 4) * 64 + t[4]>>
       \o DecodeSextets(SubSeq(t, 5, Len(t)))

\* atob (forgiving-base64 decode): whitespace is removed, up to two trailing
\* "=" are dropped from a text whose length is a multiple of 4, and any
\* other character outside the alphabet, or a length of 1 mod 4, throws
atob(text) ==
  LET t0 == StripNewlines(text)
      n == Len(t0)
      t1 == IF n > 0 /\ n % 4 = 0
            THEN IF t0[n] = Pad /\ t0[n - 1] = Pad THEN SubSeq(t0, 1, n - 2)
                 ELSE IF t0[n] = Pad THEN SubSeq(t0, 1, n - 1)
                 ELSE t0
            ELSE t0
  IN IF Len(t1) % 4 = 1 \/ \E i \in 1..Len(t1) : t1[i] > 63
     THEN [thrown |-> TRUE, bytes |-> <<>>]
     ELSE [thrown |-> FALSE, bytes |-> DecodeSextets(t1)]

\* a decode step that takes the content field as literal text
DecodeFileContent_Literal(data) ==
  IF data.hasContent
  THEN [thrown |-> FALSE, content |-> data.content]
  ELSE [thrown |-> FALSE, content |-> CouldNotDecode]

\* the decode step of fetchFileContent on a parsed metadata envelope: the
\* file body, or thrown when atob rejects the content
DecodeFileContent(data) ==
  IF data.encoding = "base64" /\ data.hasContent /\ data.content # <<>>
  THEN LET d == atob(StripNewlines(data.content))
       IN [thrown |-> d.thrown, content |-> d.bytes]
  ELSE IF data.hasContent
  THEN [thrown |-> FALSE, content |-> data.content]
  ELSE [thrown |-> FALSE, content |-> CouldNotDecode]

\* entries of a directory listing
Entry(type, name, path, ref) ==
  [type |-> type, name |-> name, path |-> path, ref |-> ref]

SampleEntries ==
  {Entry("file", "README.md", "README.md", "main"),
   Entry("dir", "src", "src", "main"),
   Entry("file", "a.py", "a.py", "main")}

\* a JSON body of the contents endpoint: an array of entries or one entry
NoEntry == Entry("none", "", "", "")
ArrayBody(items) == [isArray |-> TRUE, items |-> items, item |-> NoEntry]
ObjectBody(item) == [isArray |-> FALSE, items |-> <<>>, item |-> item]

\* a listing fetch that falls back to the empty array for a single object
fetchRepoContents_EmptyForObject(body) ==
  IF body.isArray THEN body.items ELSE <<>>

\* services/github.ts fetchRepoContents:
\* Array.isArray(contents) ? contents : [contents]
fetchRepoContents(body) ==
  IF body.isArray THEN body.items ELSE <<body.item>>

\* RepoContentViewer fetchRepoContents: Array.isArray(data) ? data : [data]
ViewerContents(body) ==
  IF body.isArray THEN body.items ELSE <<body.item>>

\* lists of distinct names
DistinctSeqs(S, n) ==
  {q \in SeqsUpTo(S, n) : \A i, j \in 1..Len(q) : i # j => q[i] # q[j]}

\* branch names the drawn branch lists are made of
BranchNames == {"main", "master", "dev", "feat"}

\* data.find(b => b.name === name)
FindBranch(data, name) ==
  IF \E i \in 1..Len(data) : data[i] = name
  THEN data[CHOOSE i \in 1..Len(data) :
              data[i] = name /\ \A j \in 1..(i - 1) : data[j] # name]
  ELSE Null

\* a default that looks for "master" before "main"
pickDefault_MasterFirst(data) ==
  IF Truthy(FindBranch(data, "master")) THEN FindBranch(data, "master")
  ELSE IF Truthy(FindBranch(data, "main")) THEN FindBranch(data, "main")
  ELSE data[1]

\* the default branch of fetchBranches, lines 61-63
pickDefault(data) ==
  IF Truthy(FindBranch(data, "main")) THEN FindBranch(data, "main")
  ELSE IF Truthy(FindBranch(data, "master")) THEN FindBranch(data, "master")
  ELSE data[1]

\* line 59: the default is resolved by a fetchBranches that captured
\* currentBranch = 'main', from a non-empty list
ResolvesDefault(closureBranch, data) ==
  closureBranch = "main" /\ Len(data) > 0

VARIABLES
  task,          \* which pure step this run exercises
  step,          \* input, encoded, applied
  payload,       \* the bytes of the file
  envelope,      \* the metadata envelope the provider returns for it
  body,          \* the file body the decode step produces
  listingBody,   \* the JSON body of a contents response
  listing,       \* what services/github.ts fetchRepoContents returns
  viewerListing, \* what the viewer stores as contents
  branchData,    \* the branch list of a branches response
  capturedBranch, \* the currentBranch its fetchBranches captured
  resolvedBranch \* currentBranch after fetchBranches handled it

pureVars == <<task, step, payload, envelope, body, listingBody, listing,
              viewerListing, branchData, capturedBranch, resolvedBranch>>

NoEnvelope == [encoding |-> "none", hasContent |-> FALSE, content |-> <<>>]

\* the provider encodes the file into a base64 envelope, wrapping the text
ProviderEncodesBase64(breaks) ==
  /\ task = "decode" /\ step = "input"
  /\ envelope' = [encoding |-> "base64", hasContent |-> TRUE,
                  content |-> WithLineBreaks(btoa(payload), breaks, 1)]
  /\ step' = "encoded"
  /\ UNCHANGED <<task, payload, body, listingBody, listing, viewerListing,
                 branchData, capturedBranch, resolvedBranch>>

\* the provider returns the file as literal text in the content field
ProviderSendsLiteral ==
  /\ task = "decode" /\ step = "input"
  /\ envelope' = [encoding |-> "none", hasContent |-> TRUE,
                  content |-> payload]
  /\ step' = "encoded"
  /\ UNCHANGED <<task, payload, body, listingBody, listing, viewerListing,
                 branchData, capturedBranch, resolvedBranch>>

\* the decode step of fetchFileContent
DecodeStep ==
  /\ task = "decode" /\ step = "encoded"
  /\ ~DecodeFileContent(envelope).thrown
  /\ body' = DecodeFileContent(envelope).content
  /\ step' = "applied"
  /\ UNCHANGED <<task, payload, envelope, listingBody, listing,
                 viewerListing, branchData, capturedBranch, resolvedBranch>>

\* both listing fetches normalise the same response body
NormalizeStep ==
  /\ task = "listing" /\ step = "input"
  /\ listing' = fetchRepoContents(listingBody)
  /\ viewerListing' = ViewerContents(listingBody)
  /\ step' = "applied"
  /\ UNCHANGED <<task, payload, envelope, body, listingBody, branchData,
                 capturedBranch, resolvedBranch>>

\* the branch selection of fetchBranches on a branches response
ResolveStep ==
  /\ task = "branches" /\ step = "input"
  /\ resolvedBranch' = IF ResolvesDefault(capturedBranch, branchData)
                       THEN pickDefault(branchData) ELSE capturedBranch
  /\ step' = "applied"
  /\ UNCHANGED <<task, payload, envelope, body, listingBody, listing,
                 viewerListing, branchData, capturedBranch>>

PureIdle ==
  /\ task = "none" /\ step = "input" /\ payload = <<>>
  /\ envelope = NoEnvelope /\ body = <<>>
  /\ listingBody = ArrayBody(<<>>) /\ listing = <<>> /\ viewerListing = <<>>
  /\ branchData = <<>> /\ capturedBranch = "main" /\ resolvedBranch = "main"

PureInit ==
  /\ step = "input" /\ envelope = NoEnvelope /\ body = <<>>
  /\ listing = <<>> /\ viewerListing = <<>>
  /\ \/ /\ task = "decode"
        /\ payload \in SeqsUpTo(ByteSamples, MaxBytes)
        /\ listingBody = ArrayBody(<<>>)
        /\ branchData = <<>> /\ capturedBranch = "main"
        /\ resolvedBranch = "main"
     \/ /\ task = "branches"
        /\ payload = <<>>
        /\ listingBody = ArrayBody(<<>>)
        /\ branchData \in DistinctSeqs(BranchNames, MaxBranchList)
        /\ capturedBranch \in BranchNames
        /\ resolvedBranch = capturedBranch
     \/ /\ task = "listing"
        /\ payload = <<>>
        /\ branchData = <<>> /\ capturedBranch = "main"
        /\ resolvedBranch = "main"
        /\ listingBody \in {ArrayBody(q) : q \in SeqsUpTo(SampleEntries, MaxEntries)}
                           \cup {ObjectBody(e) : e \in SampleEntries}

PureNext ==
  \/ \E breaks \in SUBSET (1..(4 * ((MaxBytes + 2) \div 3))) :
       ProviderEncodesBase64(breaks)
  \/ ProviderSendsLiteral
  \/ DecodeStep
  \/ NormalizeStep
  \/ ResolveStep

(***************************************************************************)
(* Repository content viewer (RepoContentViewer.tsx)                       *)
(***************************************************************************)
\* most requests the viewer issues in one session, longest branch list
MaxViewerRequests == 6
MaxBranches == 2

\* branch names of the repositories the viewer is opened on
ViewerBranchNames == {"main", "dev"}

\* branch lists the provider can return to the viewer
BranchLists == DistinctSeqs(ViewerBranchNames, MaxBranches)

\* item.name.toLowerCase().startsWith('readme')
ReadmeNames == {"README.md"}

\* the repository tree the provider serves at a ref
Children(path, ref) ==
  IF path = ""
  THEN <<Entry("file", "README.md", "README.md", ref),
         Entry("dir", "src", "src", ref)>>
  ELSE <<Entry("file", "a.py", "src/a.py", ref)>>

\* currentPath.split('/').slice(0, -1).join('/') on the paths of the tree
ParentPath(path) == IF path = "src/a.py" THEN "src" ELSE ""

\* metadata envelopes the provider can return for a file: wrapped base64,
\* base64 that atob rejects, literal text, no content field
ViewerEnvelopes ==
  {[encoding |-> "base64", hasContent |-> TRUE,
    content |-> WithLineBreaks(btoa(<<77, 10>>), {2, 4}, 1)],
   [encoding |-> "base64", hasContent |-> TRUE, content |-> <<19, Star>>],
   [encoding |-> "none", hasContent |-> TRUE, content |-> <<77>>],
   [encoding |-> "none", hasContent |-> FALSE, content |-> <<>>]}

\* bodies the provider can return to the raw text fetch
TextBodies == {<<255>>}

VARIABLES
  repoBranches \* the branches of the repository the viewer is opened on, in
               \* the order the provider lists them

providerVars == <<repoBranches>>

\* a repository without commits has no branch
repoEmpty == repoBranches = <<>>

\* the provider answers a contents request for a ref the repository does
\* not have with 404; a repository without commits has no ref at all
ProviderContentsOutcomes(r) ==
  IF \E i \in 1..Len(repoBranches) : repoBranches[i] = r.ref
  THEN {"fail", "array", "object"} ELSE {"fail"}

VARIABLES
  isOpen, contents, currentPath, vLoading, vError, selectedFile, fileContent,
  branches, currentBranch,
  cbSelected,  \* whether the memoised fetchRepoContents captured a selection
  inflight,    \* the viewer's requests in flight (a bag)
  vIssued,     \* the number of requests the viewer has issued
  vEvent       \* the most recent step of the viewer and the input it
               \* consumed; listed: a branch list has been received

viewerVars == <<isOpen, contents, currentPath, vLoading, vError, selectedFile,
                fileContent, branches, currentBranch, cbSelected, inflight,
                vIssued, vEvent>>

\* getAuthHeaders: only the persisted token is consulted; the two AtIssue
\* fields record the credentials that existed when the request was built
getAuthHeaders(e, ls) ==
  [Authorization |-> IF Truthy(ls) THEN ls ELSE Null,
   Accept |-> "application/vnd.github.v3+json",
   envAtIssue |-> e, persistedAtIssue |-> ls]

Request(kind, path, ref, file, sel, cause) ==
  [kind |-> kind, path |-> path, ref |-> ref, file |-> file, sel |-> sel,
   cause |-> cause, headers |-> getAuthHeaders(env, github_token)]

NoReq == [kind |-> "none", path |-> "", ref |-> "", file |-> NoEntry,
          sel |-> FALSE, cause |-> "", headers |-> NoRequest]

\* GET /repos/:owner/:repo/branches, issued by a fetchBranches that captured
\* currentBranch = ref
BranchesReq(ref) == Request("branches", "", ref, NoEntry, FALSE, "")

\* GET /repos/:owner/:repo/contents/:path?ref=:ref; sel is the selection the
\* callback captured
ContentsReq(path, ref, sel) ==
  Request("contents", path, ref, NoEntry, sel, "")

\* GET file.url as JSON, and the second GET of file.url as text
FileReq(file) == Request("file", file.path, file.ref, file, FALSE, "")
TextReq(file, cause) == Request("text", file.path, file.ref, file, FALSE, cause)

One(r) == SetToBag({r})

\* the step issues k requests
Issues(k) ==
  /\ vIssued + k <= MaxViewerRequests
  /\ vIssued' = vIssued + k

\* the effect of lines 104-109: fetchBranches() and fetchRepoContents()
EffectRequests(path, ref, sel) ==
  One(BranchesReq(ref)) (+) One(ContentsReq(path, ref, sel))

Ev(kind, r, outcome, data, text) ==
  [kind |-> kind, req |-> r, outcome |-> outcome, branchData |-> data,
   text |-> text, listed |-> vEvent.listed]

\* contents.find(item => item.type === 'file' && name starts with readme)
FindReadme(items) ==
  IF \E i \in 1..Len(items) :
       items[i].type = "file" /\ items[i].name \in ReadmeNames
  THEN items[CHOOSE i \in 1..Len(items) :
               /\ items[i].type = "file" /\ items[i].name \in ReadmeNames
               /\ \A j \in 1..(i - 1) :
                    ~(items[j].type = "file" /\ items[j].name \in ReadmeNames)]
  ELSE NoEntry

\* the viewer is opened: the effect starts both fetches
Open ==
  /\ ~isOpen
  /\ isOpen' = TRUE
  /\ vLoading' = TRUE
  /\ selectedFile' = NoEntry
  /\ fileContent' = <<>>
  /\ inflight' = inflight (+) EffectRequests(currentPath, currentBranch,
                                             cbSelected)
  /\ Issues(2)
  /\ vEvent' = Ev("open", NoReq, "ok", <<>>, <<>>)
  /\ UNCHANGED <<contents, currentPath, vError, branches, currentBranch,
                 cbSelected>>

\* fetchBranches continues with the response to its request
fetchBranches(r, ok, data) ==
  /\ r \in BagToSet(inflight) /\ r.kind = "branches"
  /\ vEvent' = [Ev("branches", r, IF ok THEN "ok" ELSE "fail",
                     IF ok THEN data ELSE <<>>, <<>>)
                  EXCEPT !.listed = ok \/ vEvent.listed]
  /\ IF ok /\ ResolvesDefault(r.ref, data)
        /\ pickDefault(data) # currentBranch
     THEN \* setCurrentBranch changes the state: the effect runs again
          /\ branches' = data
          /\ currentBranch' = pickDefault(data)
          /\ cbSelected' = (selectedFile # NoEntry)
          /\ vLoading' = TRUE
          /\ selectedFile' = NoEntry
          /\ fileContent' = <<>>
          /\ inflight' = (inflight (-) One(r))
                         (+) EffectRequests(currentPath, pickDefault(data),
                                            selectedFile # NoEntry)
          /\ Issues(2)
          /\ UNCHANGED <<isOpen, contents, currentPath, vError>>
     ELSE /\ branches' = IF ok THEN data ELSE branches
          /\ inflight' = inflight (-) One(r)
          /\ Issues(0)
          /\ UNCHANGED <<isOpen, contents, currentPath, vLoading, vError,
                         selectedFile, fileContent, currentBranch,
                         cbSelected>>

\* fetchRepoContents continues with the response to its request
fetchRepoContentsResponse(r, outcome) ==
  /\ r \in BagToSet(inflight) /\ r.kind = "contents"
  /\ outcome \in {"fail", "array", "object"}
  /\ outcome = "object" => r.path # ""
  /\ vEvent' = Ev("contents", r, outcome, <<>>, <<>>)
  /\ IF outcome = "fail"
     THEN /\ vError' = "Failed to fetch repository contents"
          /\ inflight' = inflight (-) One(r)
          /\ Issues(0)
          /\ UNCHANGED contents
     ELSE LET data == IF outcome = "array"
                      THEN ArrayBody(Children(r.path, r.ref))
                      ELSE ObjectBody(Entry("file", r.path, r.path, r.ref))
              readmeFile == FindReadme(ViewerContents(data))
          IN /\ contents' = ViewerContents(data)
             /\ IF r.path = "" /\ ~r.sel /\ readmeFile # NoEntry
                THEN /\ inflight' = (inflight (-) One(r))
                                     (+) One(FileReq(readmeFile))
                     /\ Issues(1)
                ELSE /\ inflight' = inflight (-) One(r)
                     /\ Issues(0)
             /\ UNCHANGED vError
  /\ vLoading' = FALSE
  /\ UNCHANGED <<isOpen, currentPath, selectedFile, fileContent, branches,
                 currentBranch, cbSelected>>

\* fetchFileContent continues with the response to its metadata request
fetchFileContent(r, outcome, data) ==
  /\ r \in BagToSet(inflight) /\ r.kind = "file"
  /\ outcome \in {"notok", "notjson", "json"}
  /\ LET d == DecodeFileContent(data)
         result == IF outcome = "json" /\ d.thrown THEN "thrown" ELSE outcome
     IN /\ vEvent' = Ev("file", r, result, <<>>, <<>>)
        /\ IF result = "json"
           THEN /\ fileContent' = d.content
                /\ selectedFile' = r.file
                /\ vLoading' = FALSE
                /\ inflight' = inflight (-) One(r)
                /\ Issues(0)
           ELSE /\ inflight' = (inflight (-) One(r))
                               (+) One(TextReq(r.file, result))
                /\ Issues(1)
                /\ UNCHANGED <<fileContent, selectedFile, vLoading>>
  /\ UNCHANGED <<isOpen, contents, currentPath, vError, branches,
                 currentBranch, cbSelected>>

\* a text fallback that keeps the file selected when the fetch fails
fetchFileContentText_KeepsSelection(r, ok, text) ==
  /\ r \in BagToSet(inflight) /\ r.kind = "text"
  /\ vEvent' = Ev("text", r, IF ok THEN "ok" ELSE "fail", <<>>,
                  IF ok THEN text ELSE <<>>)
  /\ IF ok
     THEN /\ fileContent' = text
          /\ selectedFile' = r.file
          /\ UNCHANGED vError
     ELSE /\ vError' = "Failed to fetch plain text content"
          /\ selectedFile' = r.file
          /\ UNCHANGED fileContent
  /\ vLoading' = FALSE
  /\ inflight' = inflight (-) One(r)
  /\ Issues(0)
  /\ UNCHANGED <<isOpen, contents, currentPath, branches, currentBranch,
                 cbSelected>>

\* fetchFileContent continues with the response to its raw text request
fetchFileContentText(r, ok, text) ==
  /\ r \in BagToSet(inflight) /\ r.kind = "text"
  /\ vEvent' = Ev("text", r, IF ok THEN "ok" ELSE "fail", <<>>,
                  IF ok THEN text ELSE <<>>)
  /\ IF ok
     THEN /\ fileContent' = text
          /\ selectedFile' = r.file
          /\ UNCHANGED vError
     ELSE /\ vError' = "Failed to fetch plain text content"
          /\ selectedFile' = NoEntry
          /\ UNCHANGED fileContent
  /\ vLoading' = FALSE
  /\ inflight' = inflight (-) One(r)
  /\ Issues(0)
  /\ UNCHANGED <<isOpen, contents, currentPath, branches, currentBranch,
                 cbSelected>>

\* handleItemClick on an entry of the displayed listing
handleItemClick(item) ==
  /\ isOpen /\ ~vLoading /\ vError = Null
  /\ \E i \in 1..Len(contents) : contents[i] = item
  /\ vEvent' = Ev("click", NoReq, item.type, <<>>, <<>>)
  /\ IF item.type = "dir"
     THEN /\ item.path # currentPath
          /\ currentPath' = item.path
          /\ cbSelected' = (selectedFile # NoEntry)
          /\ vLoading' = TRUE
          /\ selectedFile' = NoEntry
          /\ fileContent' = <<>>
          /\ inflight' = inflight (+) EffectRequests(item.path, currentBranch,
                                                     selectedFile # NoEntry)
          /\ Issues(2)
     ELSE /\ vLoading' = TRUE
          /\ inflight' = inflight (+) One(FileReq(item))
          /\ Issues(1)
          /\ UNCHANGED <<currentPath, cbSelected, selectedFile, fileContent>>
  /\ UNCHANGED <<isOpen, contents, vError, branches, currentBranch>>

\* goBack: the Back button, or Go back in the error view
goBack ==
  /\ isOpen /\ (currentPath # "" \/ vError # Null)
  /\ vEvent' = Ev("goBack", NoReq,
                  IF vError # Null THEN "error"
                  ELSE IF selectedFile # NoEntry THEN "file" ELSE "up",
                  <<>>, <<>>)
  /\ IF vError # Null
     THEN /\ vError' = Null
          /\ selectedFile' = NoEntry
          /\ fileContent' = <<>>
          /\ IF selectedFile # NoEntry
             THEN /\ Issues(0)
                  /\ UNCHANGED <<vLoading, inflight>>
             ELSE /\ vLoading' = TRUE
                  /\ inflight' = inflight
                       (+) One(ContentsReq(currentPath, currentBranch,
                                           cbSelected))
                  /\ Issues(1)
          /\ UNCHANGED <<currentPath, cbSelected>>
     ELSE IF selectedFile # NoEntry
     THEN /\ selectedFile' = NoEntry
          /\ fileContent' = <<>>
          /\ Issues(0)
          /\ UNCHANGED <<vError, vLoading, inflight, currentPath, cbSelected>>
     ELSE /\ currentPath' = ParentPath(currentPath)
          /\ cbSelected' = FALSE
          /\ vLoading' = TRUE
          /\ selectedFile' = NoEntry
          /\ fileContent' = <<>>
          /\ inflight' = inflight (+) EffectRequests(ParentPath(currentPath),
                                                     currentBranch, FALSE)
          /\ Issues(2)
          /\ UNCHANGED vError
  /\ UNCHANGED <<isOpen, contents, branches, currentBranch>>

\* changeBranch from the branch selector
changeBranch(branchName) ==
  /\ isOpen
  /\ \E i \in 1..Len(branches) : branches[i] = branchName
  /\ vEvent' = Ev("changeBranch", NoReq, branchName, <<>>, <<>>)
  /\ currentBranch' = branchName
  /\ currentPath' = ""
  /\ selectedFile' = NoEntry
  /\ fileContent' = <<>>
  /\ IF branchName # currentBranch \/ currentPath # ""
     THEN /\ cbSelected' = FALSE
          /\ vLoading' = TRUE
          /\ inflight' = inflight (+) EffectRequests("", branchName, FALSE)
          /\ Issues(2)
     ELSE /\ Issues(0)
          /\ UNCHANGED <<cbSelected, vLoading, inflight>>
  /\ UNCHANGED <<isOpen, contents, vError, branches>>

ViewerIdle ==
  /\ isOpen = FALSE /\ contents = <<>> /\ currentPath = "" /\ vLoading = TRUE
  /\ vError = Null /\ selectedFile = NoEntry /\ fileContent = <<>>
  /\ branches = <<>> /\ currentBranch = "main" /\ cbSelected = FALSE
  /\ inflight = EmptyBag /\ vIssued = 0
  /\ vEvent = [kind |-> "none", req |-> NoReq, outcome |-> "",
               branchData |-> <<>>, text |-> <<>>, listed |-> FALSE]

ViewerNext ==
  \/ Open
  \/ \E r \in BagToSet(inflight), ok \in BOOLEAN :
       fetchBranches(r, ok, repoBranches)
  \/ \E r \in BagToSet(inflight) :
       \E outcome \in ProviderContentsOutcomes(r) :
         fetchRepoContentsResponse(r, outcome)
  \/ \E r \in BagToSet(inflight),
        outcome \in {"notok", "notjson", "json"},
        data \in ViewerEnvelopes : fetchFileContent(r, outcome, data)
  \/ \E r \in BagToSet(inflight), ok \in BOOLEAN, text \in TextBodies :
       fetchFileContentText(r, ok, text)
  \/ \E i \in 1..Len(contents) : handleItemClick(contents[i])
  \/ goBack
  \/ \E b \in ViewerBranchNames : changeBranch(b)

(***************************************************************************)
(* Repository enrichments of the project list (services/github.ts,         *)
(* ProjectList.tsx)                                                        *)
(***************************************************************************)
\* most repositories in a listing, longest branch list a probe is given,
\* longest root listing a probe is given
MaxRepos == 2
MaxProbeBranches == 3
MaxProbeEntries == 3

\* the status the model gives a fetch that rejects (no response at all)
TransportFailure == 0

\* statuses a probe's request can end with
ProbeStatuses == Statuses \cup {TransportFailure}

\* String.prototype.trim on a text of characters
RECURSIVE TrimStart(_)
TrimStart(s) ==
  IF s # <<>> /\ Head(s) = " " THEN TrimStart(Tail(s)) ELSE s

RECURSIVE TrimEnd(_)
TrimEnd(s) ==
  IF s # <<>> /\ s[Len(s)] = " " THEN TrimEnd(SubSeq(s, 1, Len(s) - 1))
  ELSE s

Trim(s) == TrimEnd(TrimStart(s))

\* the backtick character
Backtick == "backtick"

\* .replace(/\x60/g, '')
IsNotBacktick(c) == c # Backtick
StripBackticks(s) == SelectSeq(s, IsNotBacktick)

\* packageJsonHomepage: null
NullHomepage == <<"null">>

\* what the contents endpoint returns for package.json at a ref, after
\* JSON.parse(atob(data.content)): undecodable, or the manifest's homepage
Manifest(decodable, hasHomepage, homepage) ==
  [decodable |-> decodable, hasHomepage |-> hasHomepage,
   homepage |-> homepage]

NoManifest == Manifest(FALSE, FALSE, <<>>)

\* homepage values of the manifests the provider serves
Homepages == {<<>>, <<" ">>, <<" ", "u", Backtick>>, <<Backtick, " ", "v">>}

ManifestBodies ==
  {NoManifest, Manifest(TRUE, FALSE, <<>>)}
  \cup {Manifest(TRUE, TRUE, h) : h \in Homepages}

\* branch names of the repositories the probes are run on
ProbeBranchNames == {"dev", "main", "feat"}

\* the state of one checkForPackageJson call
NoProbe ==
  [pc |-> "idle", branches |-> <<>>, requested |-> <<>>, probed |-> <<>>,
   hasPackageJson |-> FALSE, packageJsonHomepage |-> NullHomepage,
   failed |-> FALSE, raised |-> FALSE]

\* a branch check that returns the homepage as it is written
checkBranchManifest_Untrimmed(status, m) ==
  IF status = 200 /\ m.decodable /\ m.hasHomepage /\ m.homepage # <<>>
  THEN [returns |-> TRUE, homepage |-> m.homepage]
  ELSE [returns |-> FALSE, homepage |-> NullHomepage]

\* lines 115-125: what the response for one branch makes the loop return
checkBranchManifest(status, m) ==
  IF status = 200 /\ m.decodable /\ m.hasHomepage /\ m.homepage # <<>>
  THEN [returns |-> TRUE, homepage |-> StripBackticks(Trim(m.homepage))]
  ELSE [returns |-> FALSE, homepage |-> NullHomepage]

\* lines 96-108 and 138-144: the call after the response to its branches
\* request
AfterBranchList(mf, status, data) ==
  IF status # 200
  THEN [mf EXCEPT !.pc = "done", !.failed = TRUE]
  ELSE IF data = <<>>
  THEN [mf EXCEPT !.pc = "done", !.branches = data]
  ELSE [mf EXCEPT !.pc = "branch", !.branches = data,
                  !.requested = <<data[1]>>]

\* a loop whose first failing branch ends the probe
AfterBranchManifest_StopsOnFailure(mf, status, m) ==
  LET i == Len(mf.requested)
      seen == Append(mf.probed,
                     [status |-> status,
                      manifest |-> IF status = 200 THEN m ELSE NoManifest])
      r == checkBranchManifest(status, m)
  IN IF r.returns
     THEN [mf EXCEPT !.pc = "done", !.probed = seen,
                     !.hasPackageJson = TRUE,
                     !.packageJsonHomepage = r.homepage]
     ELSE IF i < Len(mf.branches)
             /\ ~(status = TransportFailure \/ (status = 200 /\ ~m.decodable))
     THEN [mf EXCEPT !.probed = seen,
                     !.requested = Append(@, mf.branches[i + 1])]
     ELSE [mf EXCEPT !.pc = "done", !.probed = seen]

\* lines 108-136: the call after the response to the package.json request
\* of the branch it is at
AfterBranchManifest(mf, status, m) ==
  LET i == Len(mf.requested)
      seen == Append(mf.probed,
                     [status |-> status,
                      manifest |-> IF status = 200 THEN m ELSE NoManifest])
      r == checkBranchManifest(status, m)
  IN IF r.returns
     THEN [mf EXCEPT !.pc = "done", !.probed = seen,
                     !.hasPackageJson = TRUE,
                     !.packageJsonHomepage = r.homepage]
     ELSE IF i < Len(mf.branches)
     THEN [mf EXCEPT !.probed = seen,
                     !.requested = Append(@, mf.branches[i + 1])]
     ELSE [mf EXCEPT !.pc = "done", !.probed = seen]

VARIABLES
  repos,      \* the repositories loadProjects enriches (filteredRepos)
  html,       \* per repository: its checkRepoContents call
  lang,       \* per repository: its detectProgrammingLanguages call
  manifest,   \* per repository: its checkForPackageJson call
  lpPc,       \* loadProjects: idle, listing, enriching, done, error, probe
  lpLoading,  \* ProjectList's loading flag
  lpError,    \* ProjectList's error state
  projects,   \* ProjectList's projects state
  lpCall      \* the outcome of the most recent service listing call

enrichVars == <<repos, html, lang, manifest, lpPc, lpLoading, lpError,
                projects, lpCall>>

RepoIds == 1..MaxRepos

\* checkForPackageJson continues with the response to its branches request
checkForPackageJson(n, status, data) ==
  /\ manifest[n].pc = "branches"
  /\ manifest' = [manifest EXCEPT ![n] = AfterBranchList(@, status, data)]
  /\ UNCHANGED <<repos, html, lang, lpPc, lpLoading, lpError, projects,
                 lpCall, github_token>>

\* checkForPackageJson continues with the response to the package.json
\* request of the branch its loop is at
checkForPackageJsonBranch(n, status, m) ==
  /\ manifest[n].pc = "branch"
  /\ manifest' = [manifest EXCEPT ![n] = AfterBranchManifest(@, status, m)]
  /\ UNCHANGED <<repos, html, lang, lpPc, lpLoading, lpError, projects,
                 lpCall, github_token>>

\* root entries of the repositories the probes are run on; a name is the
\* sequence of its parts between the "."s (name.split('.'))
Item(type, name) == [type |-> type, name |-> name]

\* String.prototype.toLowerCase on the name parts the model uses
Lower(s) ==
  CASE s = "PY" -> "py"
    [] s = "HTML" -> "html"
    [] s = "User" -> "user"
    [] OTHER -> s

\* languageMap[ext], lines 271-297: the table, and for a suffix that names
\* a property every object inherits the value of that property as the key
\* it is counted under
languageMap(ext) ==
  CASE ext = "py" -> "Python"
    [] ext = "js" -> "JavaScript"
    [] ext = "ts" -> "TypeScript"
    [] ext = "jsx" -> "JavaScript"
    [] ext = "tsx" -> "TypeScript"
    [] ext = "html" -> "HTML"
    [] ext = "css" -> "CSS"
    [] ext = "cpp" -> "C++"
    [] ext = "c" -> "C"
    [] ext = "h" -> "C"
    [] ext = "hpp" -> "C++"
    [] ext = "java" -> "Java"
    [] ext = "rs" -> "Rust"
    [] ext = "go" -> "Golang"
    [] ext = "rb" -> "Ruby"
    [] ext = "php" -> "PHP"
    [] ext = "cs" -> "C#"
    [] ext = "swift" -> "Swift"
    [] ext = "kt" -> "Kotlin"
    [] ext = "constructor" -> "function Object() { [native code] }"
    [] ext = "__proto__" -> "[object Object]"
    [] OTHER -> Null

\* the labels of the table
LanguageLabels ==
  {"Python", "JavaScript", "TypeScript", "HTML", "CSS", "C++", "C", "Java",
   "Rust", "Golang", "Ruby", "PHP", "C#", "Swift", "Kotlin"}

\* lines 263-269: the lowercase suffix of every file entry that has one
RECURSIVE fileExtensions(_)
fileExtensions(items) ==
  IF items = <<>> THEN <<>>
  ELSE LET item == Head(items)
           parts == item.name
       IN (IF item.type = "file" /\ Len(parts) > 1
           THEN <<Lower(parts[Len(parts)])>> ELSE <<>>)
          \o fileExtensions(Tail(items))

\* lines 294-301: the labels in the order languageCounts received its keys
RECURSIVE countedLabels(_)
countedLabels(exts) ==
  IF exts = <<>> THEN <<>>
  ELSE LET before == countedLabels(SubSeq(exts, 1, Len(exts) - 1))
           language == languageMap(exts[Len(exts)])
       IN IF Truthy(language) /\ \A i \in 1..Len(before) : before[i] # language
          THEN Append(before, language) ELSE before

\* languageCounts[language]
languageCount(exts, language) ==
  Cardinality({i \in 1..Len(exts) : languageMap(exts[i]) = language})

\* lines 304-312: the scan of Object.entries(languageCounts)
RECURSIVE mostCommon(_, _, _, _)
mostCommon(labels, exts, primaryLanguage, maxCount) ==
  IF labels = <<>> THEN primaryLanguage
  ELSE LET count == languageCount(exts, Head(labels))
       IN IF count > maxCount
          THEN mostCommon(Tail(labels), exts, Head(labels), count)
          ELSE mostCommon(Tail(labels), exts, primaryLanguage, maxCount)

\* lines 263-314 of detectProgrammingLanguages on a fetched listing
primaryLanguageOf(items) ==
  LET exts == fileExtensions(items)
  IN mostCommon(countedLabels(exts), exts, "", 0)

\* an extension check that compares the name as it is written
endsWithHtml_CaseSensitive(name) ==
  Len(name) > 1 /\ name[Len(name)] = "html"

\* item.name.toLowerCase().endsWith('.html')
endsWithHtml(name) ==
  Len(name) > 1 /\ Lower(name[Len(name)]) = "html"

\* lines 219-221: contents.some(file with a name ending in .html)
someHtmlFile(items) ==
  \E i \in 1..Len(items) :
    items[i].type = "file" /\ endsWithHtml(items[i].name)

\* the outcome of a service call that lists something: the error it threw,
\* or whether it returned the fallback empty array or called itself again
NoError == [status |-> 0, statusText |-> ""]

Call(fn, status, thrown, error, returnedEmpty, reissued) ==
  [fn |-> fn, status |-> status, thrown |-> thrown, error |-> error,
   returnedEmpty |-> returnedEmpty, reissued |-> reissued]

NoCall == Call("none", 200, FALSE, NoError, FALSE, FALSE)

\* services/github.ts fetchRepoContents, lines 234-252: the call's outcome,
\* the listing it returns and what it did to the token store
fetchRepoContentsCall(status, items, e, ls, answer) ==
  IF status = TransportFailure
  THEN [call |-> Call("fetchRepoContents", status, TRUE, NoError, FALSE,
                      FALSE),
        value |-> <<>>, persisted |-> ls, prompted |-> FALSE]
  ELSE IF status = 200
  THEN [call |-> Call("fetchRepoContents", status, FALSE, NoError, FALSE,
                      FALSE),
        value |-> fetchRepoContents(ArrayBody(items)), persisted |-> ls,
        prompted |-> FALSE]
  ELSE LET h == handleApiError(status, e, ls, answer)
       IN [call |-> Call("fetchRepoContents", status, h.thrown,
                         IF h.thrown THEN h.error ELSE NoError, ~h.thrown,
                         FALSE),
           value |-> <<>>, persisted |-> h.persisted,
           prompted |-> h.prompted]

\* services/github.ts fetchUserRepositories, lines 148-168: the call's
\* outcome, the repositories it returns and what it did to the token store
fetchUserRepositoriesCall(status, data, e, ls, answer) ==
  IF status = TransportFailure
  THEN [call |-> Call("fetchUserRepositories", status, TRUE, NoError, FALSE,
                      FALSE),
        value |-> <<>>, persisted |-> ls, prompted |-> FALSE]
  ELSE IF status = 200
  THEN [call |-> Call("fetchUserRepositories", status, FALSE, NoError,
                      FALSE, FALSE),
        value |-> data, persisted |-> ls, prompted |-> FALSE]
  ELSE LET h == handleApiError(status, e, ls, answer)
           again == ~h.thrown /\ status \in {401, 403}
       IN [call |-> Call("fetchUserRepositories", status, h.thrown,
                         IF h.thrown THEN h.error ELSE NoError,
                         ~h.thrown /\ ~again, again),
           value |-> <<>>, persisted |-> h.persisted,
           prompted |-> h.prompted]

\* the state of one checkRepoContents call
NoHtml == [pc |-> "idle", value |-> FALSE, failed |-> FALSE,
           raised |-> FALSE, indexStatus |-> 0, listed |-> FALSE,
           seen |-> <<>>]

\* the state of one detectProgrammingLanguages call
NoLang == [pc |-> "idle", value |-> "", failed |-> FALSE, raised |-> FALSE,
           seen |-> <<>>, call |-> NoCall, prompted |-> FALSE]

\* lines 197-204 and 222-225: the call after the response to its
\* index.html request
AfterIndexHtml(hp, status) ==
  IF status = 200
  THEN [hp EXCEPT !.pc = "done", !.value = TRUE, !.indexStatus = status]
  ELSE IF status = TransportFailure
  THEN [hp EXCEPT !.pc = "done", !.value = FALSE, !.failed = TRUE,
                  !.indexStatus = status]
  ELSE [hp EXCEPT !.pc = "contents", !.indexStatus = status]

\* lines 207-225: the call after the response to its root listing request
AfterRootListing(hp, status, items) ==
  IF status = 200
  THEN [hp EXCEPT !.pc = "done", !.value = someHtmlFile(items),
                  !.listed = TRUE, !.seen = items]
  ELSE [hp EXCEPT !.pc = "done", !.value = FALSE, !.failed = TRUE]

\* checkRepoContents continues with the response to its index.html request
checkRepoContents(n, status) ==
  /\ html[n].pc = "index"
  /\ html' = [html EXCEPT ![n] = AfterIndexHtml(@, status)]
  /\ UNCHANGED <<repos, lang, manifest, lpPc, lpLoading, lpError, projects,
                 lpCall, github_token>>

\* checkRepoContents continues with the response to its root listing
\* request
checkRepoContentsListing(n, status, items) ==
  /\ html[n].pc = "contents"
  /\ html' = [html EXCEPT ![n] = AfterRootListing(@, status, items)]
  /\ UNCHANGED <<repos, lang, manifest, lpPc, lpLoading, lpError, projects,
                 lpCall, github_token>>

\* detectProgrammingLanguages continues with the response to the request of
\* its fetchRepoContents call
detectProgrammingLanguages(n, status, answer, items) ==
  /\ lang[n].pc = "contents"
  /\ LET c == fetchRepoContentsCall(status, items, env, github_token, answer)
     IN /\ lang' = [lang EXCEPT ![n] =
                      [pc |-> "done",
                       value |-> IF c.call.thrown THEN ""
                                 ELSE primaryLanguageOf(c.value),
                       failed |-> c.call.thrown, raised |-> FALSE,
                       seen |-> IF status = 200 THEN items ELSE <<>>,
                       call |-> c.call, prompted |-> c.prompted]]
        /\ github_token' = c.persisted
  /\ UNCHANGED <<repos, html, manifest, lpPc, lpLoading, lpError, projects,
                 lpCall>>

\* the user whose repositories are listed
username == "user"

\* a repository of the listing; updated stands for its updated_at time
Repo(name, language, featured, updated) ==
  [name |-> name, language |-> language, featured |-> featured,
   updated |-> updated]

\* repositories the provider lists for the user
SampleRepos ==
  {Repo("alpha", Null, FALSE, 2), Repo("beta", "HTML", TRUE, 1),
   Repo("User", Null, FALSE, 3)}

\* lines 57-59: repos whose name differs from the username
IsNotProfileRepo(repo) == Lower(repo.name) # Lower(username)
filteredRepos(data) == SelectSeq(data, IsNotProfileRepo)

\* an enhancement that keeps the detected label also when it is empty
enhancedRepo_NoLanguageFallback(repo, hp, lg, mf) ==
  IF hp.raised \/ lg.raised \/ mf.raised
  THEN [name |-> repo.name, featured |-> repo.featured,
        updated |-> repo.updated, hasHtmlFile |-> FALSE,
        primaryLanguage |-> IF Truthy(repo.language) THEN repo.language
                            ELSE "Unknown",
        hasPackageJson |-> FALSE, packageJsonHomepage |-> NullHomepage]
  ELSE [name |-> repo.name, featured |-> repo.featured,
        updated |-> repo.updated, hasHtmlFile |-> hp.value,
        primaryLanguage |-> lg.value,
        hasPackageJson |-> mf.hasPackageJson,
        packageJsonHomepage |-> mf.packageJsonHomepage]

\* lines 64-88: the project record built from the three enrichments
enhancedRepo(repo, hp, lg, mf) ==
  IF hp.raised \/ lg.raised \/ mf.raised
  THEN [name |-> repo.name, featured |-> repo.featured,
        updated |-> repo.updated, hasHtmlFile |-> FALSE,
        primaryLanguage |-> IF Truthy(repo.language) THEN repo.language
                            ELSE "Unknown",
        hasPackageJson |-> FALSE, packageJsonHomepage |-> NullHomepage]
  ELSE [name |-> repo.name, featured |-> repo.featured,
        updated |-> repo.updated, hasHtmlFile |-> hp.value,
        primaryLanguage |-> IF Truthy(lg.value) THEN lg.value
                            ELSE IF Truthy(repo.language) THEN repo.language
                            ELSE "Unknown",
        hasPackageJson |-> mf.hasPackageJson,
        packageJsonHomepage |-> mf.packageJsonHomepage]

\* lines 93-108: a sorts before b
SortsBefore(a, b) ==
  \/ a.featured /\ ~b.featured
  \/ a.featured = b.featured /\ a.updated > b.updated

RECURSIVE InsertSorted(_, _)
InsertSorted(sorted, x) ==
  IF sorted = <<>> THEN <<x>>
  ELSE IF SortsBefore(x, Head(sorted)) THEN <<x>> \o sorted
  ELSE <<Head(sorted)>> \o InsertSorted(Tail(sorted), x)

\* enhancedRepos.sort(...)
RECURSIVE sortedRepos(_)
sortedRepos(rs) ==
  IF rs = <<>> THEN <<>>
  ELSE InsertSorted(sortedRepos(SubSeq(rs, 1, Len(rs) - 1)), rs[Len(rs)])

\* loadProjects starts: on mount, and again after Try Again
loadProjects ==
  /\ lpPc \in {"idle", "error"}
  /\ lpPc' = "listing"
  /\ lpLoading' = TRUE
  /\ lpError' = Null
  /\ repos' = <<>>
  /\ html' = [n \in RepoIds |-> NoHtml]
  /\ lang' = [n \in RepoIds |-> NoLang]
  /\ manifest' = [n \in RepoIds |-> NoProbe]
  /\ UNCHANGED <<projects, lpCall, github_token>>

\* loadProjects continues with the response to the request of its
\* fetchUserRepositories call; with the listing it starts, for every
\* repository, the three enrichments at once
loadProjectsListing(status, answer, data) ==
  /\ lpPc = "listing"
  /\ LET c == fetchUserRepositoriesCall(status, data, env, github_token,
                                        answer)
     IN /\ lpCall' = c.call
        /\ github_token' = c.persisted
        /\ IF c.call.thrown
           THEN /\ lpPc' = "error"
                /\ lpError' = "Failed to load projects"
                /\ lpLoading' = FALSE
                /\ UNCHANGED <<repos, html, lang, manifest>>
           ELSE IF c.call.reissued
           THEN UNCHANGED <<lpPc, lpError, lpLoading, repos, html, lang,
                            manifest>>
           ELSE /\ lpPc' = "enriching"
                /\ repos' = filteredRepos(c.value)
                /\ html' = [n \in RepoIds |->
                              IF n <= Len(filteredRepos(c.value))
                              THEN [NoHtml EXCEPT !.pc = "index"]
                              ELSE NoHtml]
                /\ lang' = [n \in RepoIds |->
                              IF n <= Len(filteredRepos(c.value))
                              THEN [NoLang EXCEPT !.pc = "contents"]
                              ELSE NoLang]
                /\ manifest' = [n \in RepoIds |->
                                  IF n <= Len(filteredRepos(c.value))
                                  THEN [NoProbe EXCEPT !.pc = "branches"]
                                  ELSE NoProbe]
                /\ UNCHANGED <<lpError, lpLoading>>
  /\ UNCHANGED projects

\* loadProjects continues when every enrichment of every repository has
\* settled: lines 72-78, 93-110 and 115
setProjects ==
  /\ lpPc = "enriching"
  /\ \A n \in 1..Len(repos) :
       html[n].pc = "done" /\ lang[n].pc = "done" /\ manifest[n].pc = "done"
  /\ projects' = sortedRepos([n \in 1..Len(repos) |->
                                enhancedRepo(repos[n], html[n], lang[n],
                                             manifest[n])])
  /\ lpLoading' = FALSE
  /\ lpPc' = "done"
  /\ UNCHANGED <<repos, html, lang, manifest, lpError, lpCall, github_token>>

EnrichIdle ==
  /\ repos = <<>>
  /\ html = [n \in RepoIds |-> NoHtml]
  /\ lang = [n \in RepoIds |-> NoLang]
  /\ manifest = [n \in RepoIds |-> NoProbe]
  /\ lpPc = "idle" /\ lpLoading = TRUE /\ lpError = Null
  /\ projects = <<>> /\ lpCall = NoCall

\* responses the provider gives while a project list loads
EnrichRepoLists == DistinctSeqs(SampleRepos, MaxRepos)
EnrichIndexStatuses == {200, 404}
EnrichListingStatuses == {200, TransportFailure}
EnrichListings == {<<Item("file", <<"a", "HTML">>)>>}
EnrichContentsStatuses == {200, 403, 404}
EnrichContents == {<<Item("file", <<"a", "py">>)>>, <<>>}
EnrichBranchesStatuses == {200, 500}
EnrichBranchLists == {<<"main">>}
EnrichManifestStatuses == {200, 404}
EnrichManifests == {Manifest(TRUE, TRUE, <<" ", "u", Backtick>>)}

EnrichNext ==
  \/ loadProjects
  \/ \E status \in ProbeStatuses, answer \in PromptAnswers,
        data \in EnrichRepoLists : loadProjectsListing(status, answer, data)
  \/ \E n \in RepoIds, status \in EnrichIndexStatuses :
       checkRepoContents(n, status)
  \/ \E n \in RepoIds, status \in EnrichListingStatuses,
        items \in EnrichListings : checkRepoContentsListing(n, status, items)
  \/ \E n \in RepoIds, status \in EnrichContentsStatuses,
        answer \in PromptAnswers, items \in EnrichContents :
       detectProgrammingLanguages(n, status, answer, items)
  \/ \E n \in RepoIds, status \in EnrichBranchesStatuses,
        data \in EnrichBranchLists : checkForPackageJson(n, status, data)
  \/ \E n \in RepoIds, status \in EnrichManifestStatuses,
        m \in EnrichManifests : checkForPackageJsonBranch(n, status, m)
  \/ setProjects

\* root entries and listings a single probe is run on
HtmlItems ==
  {Item("file", <<"a", "HTML">>), Item("dir", <<"d", "html">>),
   Item("file", <<"a", "py">>), Item("file", <<"html">>)}

LangItems ==
  {Item("file", <<"a", "py">>), Item("file", <<"b", "PY">>),
   Item("file", <<"c", "js">>), Item("file", <<"d", "tar", "jsx">>),
   Item("file", <<"Makefile">>), Item("dir", <<"e", "py">>),
   Item("file", <<"f", "xyz">>), Item("file", <<"g", "constructor">>)}

\* one probe is called on one repository
ProbeInit ==
  /\ repos = <<Repo("alpha", Null, FALSE, 2)>>
  /\ lpPc = "probe" /\ lpLoading = TRUE /\ lpError = Null
  /\ projects = <<>> /\ lpCall = NoCall
  /\ \E which \in {"html", "lang", "manifest"} :
       /\ html = [n \in RepoIds |->
                    IF n = 1 /\ which = "html"
                    THEN [NoHtml EXCEPT !.pc = "index"] ELSE NoHtml]
       /\ lang = [n \in RepoIds |->
                    IF n = 1 /\ which = "lang"
                    THEN [NoLang EXCEPT !.pc = "contents"] ELSE NoLang]
       /\ manifest = [n \in RepoIds |->
                        IF n = 1 /\ which = "manifest"
                        THEN [NoProbe EXCEPT !.pc = "branches"]
                        ELSE NoProbe]

ProbeNext ==
  \/ \E status \in ProbeStatuses : checkRepoContents(1, status)
  \/ /\ html[1].pc = "contents"
     /\ \E status \in ProbeStatuses,
           items \in SeqsUpTo(HtmlItems, MaxProbeEntries) :
          checkRepoContentsListing(1, status, items)
  \/ /\ lang[1].pc = "contents"
     /\ \E status \in ProbeStatuses, answer \in PromptAnswers,
           items \in SeqsUpTo(LangItems, MaxProbeEntries) :
          detectProgrammingLanguages(1, status, answer, items)
  \/ /\ manifest[1].pc = "branches"
     /\ \E status \in ProbeStatuses,
           data \in DistinctSeqs(ProbeBranchNames, MaxProbeBranches) :
          checkForPackageJson(1, status, data)
  \/ \E status \in ProbeStatuses, m \in ManifestBodies :
       checkForPackageJsonBranch(1, status, m)

(***************************************************************************)
(* Normalisers: the README's HTML post-processing (ReadmeViewer.tsx) and    *)
(* the markdown image rewrite (RepoContentViewer.tsx).  A text is a        *)
(* sequence of lexemes; a regular expression is applied lexeme by lexeme.   *)
(***************************************************************************)

MaxTags == 2
MaxAttrs == 2
MaxPieces == 2

\* Concatenation of a sequence of sequences
RECURSIVE Flatten(_)
Flatten(ss) == IF ss = <<>> THEN <<>> ELSE Head(ss) \o Flatten(Tail(ss))

\* the index of the first lexeme c at or after i, or 0
RECURSIVE FirstAt(_, _, _)
FirstAt(d, i, c) ==
  IF i > Len(d) THEN 0 ELSE IF d[i] = c THEN i ELSE FirstAt(d, i + 1, c)

\* \s
IsSpace(t) == t = " "

\* <a under the flag i, and <a without it
AnchorOpenAnyCase(t) == t \in {"<a", "<A"}
AnchorOpen(t) == t = "<a"

\* target= under the flag i
IsTargetEq(t) == t \in {"target=", "TARGET="}

\* (['"])_blank\1
IsQuotedBlank(t) == t \in {"\"_blank\"", "'_blank'"}

\* the last character of the lexeme is a word character
EndsInWordChar(t) == t \in {"x", "<a", "<A", "<img", "<pre"}

\* [^>]*\btarget=(['"])_blank\1 matches somewhere in d[from..gt-1]
SeesTargetBlank(d, from, gt) ==
  \E q \in from..(gt - 2) :
    /\ IsTargetEq(d[q]) /\ IsQuotedBlank(d[q + 1])
    /\ ~EndsInWordChar(d[q - 1])

\* /<a\s+(?![^>]*\btarget=(['"])_blank\1)[^>]*>/gi matches at i: the index
\* of the closing > of the match, or 0
AnchorMatch(d, i) ==
  IF /\ AnchorOpenAnyCase(d[i]) /\ i + 1 <= Len(d) /\ IsSpace(d[i + 1])
     /\ FirstAt(d, i + 2, ">") # 0
     /\ ~SeesTargetBlank(d, i + 2, FirstAt(d, i + 2, ">"))
  THEN FirstAt(d, i + 2, ">") ELSE 0

\* the text '<a target="_blank" rel="noopener noreferrer" '
NewContext ==
  <<"<a", " ", "target=", "\"_blank\"", " ",
    "rel=\"noopener noreferrer\"", " ">>

\* match.replace(/<a\s/, '<a target="_blank" rel="noopener noreferrer" '):
\* the first <a followed by a space, in lower case, is replaced
AddTarget(m) ==
  IF \E k \in 1..(Len(m) - 1) : AnchorOpen(m[k]) /\ IsSpace(m[k + 1])
  THEN LET k == CHOOSE k \in 1..(Len(m) - 1) :
                  /\ AnchorOpen(m[k]) /\ IsSpace(m[k + 1])
                  /\ \A j \in 1..(k - 1) :
                       ~(AnchorOpen(m[j]) /\ IsSpace(m[j + 1]))
       IN SubSeq(m, 1, k - 1) \o NewContext \o SubSeq(m, k + 2, Len(m))
  ELSE m

\* processedHtml.replace(/<a\s+...>/gi, match => ...) from index i on
RECURSIVE TargetAnchors(_, _)
TargetAnchors(d, i) ==
  IF i > Len(d) THEN <<>>
  ELSE IF AnchorMatch(d, i) # 0
  THEN AddTarget(SubSeq(d, i, AnchorMatch(d, i)))
         \o TargetAnchors(d, AnchorMatch(d, i) + 1)
  ELSE <<d[i]>> \o TargetAnchors(d, i + 1)

\* processedHtml.replace(/<img\s/gi, '<img class="readme-img" ')
RECURSIVE ClassImages(_, _)
ClassImages(d, i) ==
  IF i > Len(d) THEN <<>>
  ELSE IF d[i] = "<img" /\ i + 1 <= Len(d) /\ IsSpace(d[i + 1])
  THEN <<"<img", " ", "class=\"readme-img\"", " ">> \o ClassImages(d, i + 2)
  ELSE <<d[i]>> \o ClassImages(d, i + 1)

\* processedHtml.replace(/<pre>/gi, '<pre class="code-block">')
RECURSIVE ClassCodeBlocks(_, _)
ClassCodeBlocks(d, i) ==
  IF i > Len(d) THEN <<>>
  ELSE IF d[i] = "<pre" /\ i + 1 <= Len(d) /\ d[i + 1] = ">"
  THEN <<"<pre", " ", "class=\"code-block\"", ">">>
         \o ClassCodeBlocks(d, i + 2)
  ELSE <<d[i]>> \o ClassCodeBlocks(d, i + 1)

\* the three replacements of fetchReadme, in order
processHtml(d) == ClassCodeBlocks(ClassImages(TargetAnchors(d, 1), 1), 1)

\* a tag of the README's HTML: its opening lexeme and its attributes
Attributes ==
  {<<"href=x">>, <<"target=", "\"_blank\"">>, <<"target=", "'_blank'">>,
   <<"target=", "\"_self\"">>, <<"data-", "target=", "\"_blank\"">>}

TagOpens == {"<a", "<A", "<img", "<pre"}

Tag(open, attrs) == [open |-> open, attrs |-> attrs]

RECURSIVE RenderAttrs(_)
RenderAttrs(attrs) ==
  IF attrs = <<>> THEN <<>>
  ELSE <<" ">> \o Head(attrs) \o RenderAttrs(Tail(attrs))

RenderTag(tag) == <<tag.open>> \o RenderAttrs(tag.attrs) \o <<">">>

RenderTags(tags) == Flatten([i \in 1..Len(tags) |-> RenderTag(tags[i])])

\* ![alt](target): the lexemes of a markdown image reference
Image(alt, target) == <<"![">> \o alt \o <<"]", "(">> \o target \o <<")">>

\* the target begins with the four characters h, t, t, p
BeginsWithHttp(t) == t \in {"https://ext.com/a.png", "http-assets/a.png"}

\* /!\[([^\]]*)\]\((?!http)([^)]*)\)/g matches at i: the indexes of the
\* closing ] and of the closing ) of the match, or two zeros
ImageMatch(d, i) ==
  LET c == FirstAt(d, i + 1, "]")
      e == IF c = 0 THEN 0 ELSE FirstAt(d, c + 2, ")")
  IN IF /\ d[i] = "![" /\ c # 0 /\ c + 1 <= Len(d) /\ d[c + 1] = "("
        /\ e # 0 /\ ~BeginsWithHttp(d[c + 2])
     THEN <<c, e>> ELSE <<0, 0>>

repoName == "repo"

\* `![$1](https://raw.githubusercontent.com/${username}/${repoName}/
\* ${currentBranch}/$2)`
RawImage(alt, ref, path) ==
  <<"![">> \o alt
     \o <<"]", "(", "https://raw.githubusercontent.com/", username, "/",
          repoName, "/", ref, "/">>
     \o path \o <<")">>

\* content.replace(/!\[([^\]]*)\]\((?!http)([^)]*)\)/g, ...) from index i on
RECURSIVE RewriteImages(_, _, _)
RewriteImages(d, ref, i) ==
  IF i > Len(d) THEN <<>>
  ELSE LET m == ImageMatch(d, i)
       IN IF m[1] # 0
          THEN RawImage(SubSeq(d, i + 1, m[1] - 1), ref,
                        SubSeq(d, m[1] + 2, m[2] - 1))
                 \o RewriteImages(d, ref, m[2] + 1)
          ELSE <<d[i]>> \o RewriteImages(d, ref, i + 1)

processMarkdownContent(content, currentBranchName) ==
  RewriteImages(content, currentBranchName, 1)

\* the pieces of a markdown body: image references and plain text
AltTexts == {<<>>, <<"x">>, <<"x", "[", "x", "]">>}
ImageTargets == {<<"img/a.png">>, <<"https://ext.com/a.png">>}

ImagePiece(alt, target) == [kind |-> "image", alt |-> alt, target |-> target]
TextPiece == [kind |-> "text", alt |-> <<>>, target |-> <<"x">>]

MarkdownPieces ==
  {ImagePiece(alt, t) : alt \in AltTexts, t \in ImageTargets}
    \cup {TextPiece}

RenderPiece(piece) ==
  IF piece.kind = "image" THEN Image(piece.alt, piece.target)
  ELSE piece.target

RenderPieces(ps) == Flatten([i \in 1..Len(ps) |-> RenderPiece(ps[i])])

VARIABLES
  nTask,    \* which normaliser this run exercises
  nStep,    \* input, applied
  nTags,    \* the tags of the README's HTML
  nPieces,  \* the pieces of the markdown body
  nRef,     \* currentBranch of the viewer that renders the markdown
  nInput,   \* the text handed to the normaliser
  nOutput   \* the text it produced

normVars == <<nTask, nStep, nTags, nPieces, nRef, nInput, nOutput>>

\* fetchReadme post-processes the HTML of a 2xx response
fetchReadmeProcess ==
  /\ nTask = "html" /\ nStep = "input"
  /\ nOutput' = processHtml(nInput)
  /\ nStep' = "applied"
  /\ UNCHANGED <<nTask, nTags, nPieces, nRef, nInput>>

\* renderFileContent hands the markdown body to processMarkdownContent
renderMarkdown ==
  /\ nTask = "markdown" /\ nStep = "input"
  /\ nOutput' = processMarkdownContent(nInput, nRef)
  /\ nStep' = "applied"
  /\ UNCHANGED <<nTask, nTags, nPieces, nRef, nInput>>

NormIdle ==
  /\ nTask = "none" /\ nStep = "input" /\ nTags = <<>> /\ nPieces = <<>>
  /\ nRef = "main" /\ nInput = <<>> /\ nOutput = <<>>

NormInit ==
  /\ nStep = "input" /\ nOutput = <<>>
  /\ \/ /\ nTask = "html"
        /\ nTags \in SeqsUpTo({Tag(open, attrs) :
                                 open \in TagOpens,
                                 attrs \in SeqsUpTo(Attributes, MaxAttrs)},
                              MaxTags)
        /\ nPieces = <<>> /\ nRef = "main"
        /\ nInput = RenderTags(nTags)
     \/ /\ nTask = "markdown"
        /\ nTags = <<>>
        /\ nPieces \in SeqsUpTo(MarkdownPieces, MaxPieces)
        /\ nRef \in ViewerBranchNames
        /\ nInput = RenderPieces(nPieces)

NormNext == fetchReadmeProcess \/ renderMarkdown

(***************************************************************************)
(* Profile links (ProfileSidebar.tsx): the displayed link list, its        *)
(* persisted state and the drag-and-drop reordering                        *)
(***************************************************************************)

MaxLinks == 3
MaxLinkFetches == 3

\* savedLinkOrder[url] === undefined, and a ref whose current is null
Undefined == -1
NullIndex == -1

LinkUrls == {"blog", "github", "c1"}

\* the urls addCustomLink's prompt may return
CustomUrls == {"c1"}

\* the links fetchUserProfile extracts from the profile and its README, in
\* the order it pushes them
ProviderLinkLists == {<<"github">>, <<"blog", "github">>}

\* a link of customLinks, as persisted and as captured by a closure
Link(url, order) == [url |-> url, order |-> order]

\* a link of socialLinks; custom: the index in customLinks of the object
\* this element is (addCustomLink puts one object into both arrays), or 0
SocialLink(url, order, custom) ==
  [url |-> url, order |-> order, custom |-> custom]

NoOrder == [u \in LinkUrls |-> Undefined]

\* saveLinkOrder's orderMap: links.forEach((link, index) => orderMap[url] =
\* index), a later link overwriting an earlier one with the same url
OrderMap(links) ==
  [u \in LinkUrls |->
     IF \E i \in 1..Len(links) : links[i].url = u
     THEN (CHOOSE i \in 1..Len(links) :
             /\ links[i].url = u
             /\ \A j \in (i + 1)..Len(links) : links[j].url # u) - 1
     ELSE Undefined]

\* Object.keys(savedLinkOrder).length === 0
HasNoKeys(saved) == \A u \in LinkUrls : saved[u] = Undefined

\* links.push({..., order: savedLinkOrder[url] !== undefined ?
\* savedLinkOrder[url] : order++}) for the urls in turn
RECURSIVE extractedLinks(_, _, _)
extractedLinks(urls, saved, order) ==
  IF urls = <<>> THEN <<>>
  ELSE IF saved[Head(urls)] # Undefined
  THEN <<SocialLink(Head(urls), saved[Head(urls)], 0)>>
         \o extractedLinks(Tail(urls), saved, order)
  ELSE <<SocialLink(Head(urls), order, 0)>>
         \o extractedLinks(Tail(urls), saved, order + 1)

\* customLinks.map(link => ({...link, order: saved or 1000 + link.order}))
savedCustomLinks(custom, saved) ==
  [i \in 1..Len(custom) |->
     SocialLink(custom[i].url,
                IF saved[custom[i].url] # Undefined
                THEN saved[custom[i].url] ELSE 1000 + custom[i].order,
                0)]

\* Array.prototype.sort((a, b) => a.order - b.order), which is stable
RECURSIVE InsertByOrder(_, _)
InsertByOrder(sorted, x) ==
  IF sorted = <<>> THEN <<x>>
  ELSE IF x.order < Head(sorted).order THEN <<x>> \o sorted
  ELSE <<Head(sorted)>> \o InsertByOrder(Tail(sorted), x)

RECURSIVE SortByOrder(_)
SortByOrder(links) ==
  IF links = <<>> THEN <<>>
  ELSE InsertByOrder(SortByOrder(SubSeq(links, 1, Len(links) - 1)),
                     links[Len(links)])

combinedLinks(urls, custom, saved) ==
  SortByOrder(extractedLinks(urls, saved, 0) \o savedCustomLinks(custom, saved))

\* links.filter(link => link.url !== url)
RECURSIVE WithoutUrl(_, _)
WithoutUrl(links, url) ==
  IF links = <<>> THEN <<>>
  ELSE IF Head(links).url = url THEN WithoutUrl(Tail(links), url)
  ELSE <<Head(links)>> \o WithoutUrl(Tail(links), url)

\* newLinks.splice(dragItem, 1); newLinks.splice(dragOverItem, 0, dragged),
\* with indexes counted from 0
RemoveAt(links, i) ==
  SubSeq(links, 1, i) \o SubSeq(links, i + 2, Len(links))

InsertAt(links, j, x) ==
  IF j >= Len(links) THEN Append(links, x)
  ELSE SubSeq(links, 1, j) \o <<x>> \o SubSeq(links, j + 1, Len(links))

splicedLinks(links, i, j) == InsertAt(RemoveAt(links, i), j, links[i + 1])

\* newLinks.forEach((link, index) => { link.order = index }) on the first n
\* elements
Reindexed(links, n) ==
  [k \in 1..Len(links) |->
     IF k <= n THEN [links[k] EXCEPT !.order = k - 1] ELSE links[k]]

\* the customLinks array after its objects that are elements of links were
\* given the order of those elements
Aliased(custom, links) ==
  [k \in 1..Len(custom) |->
     IF \E m \in 1..Len(links) : links[m].custom = k
     THEN Link(custom[k].url,
               links[CHOOSE m \in 1..Len(links) : links[m].custom = k].order)
     ELSE custom[k]]

\* customLinks.map(customLink => { const matchingLink = newLinks.find(link
\* => link.url === customLink.url); ... })
updatedCustomLinks(custom, newLinks) ==
  [k \in 1..Len(custom) |->
     IF \E m \in 1..Len(newLinks) : newLinks[m].url = custom[k].url
     THEN Link(custom[k].url,
               newLinks[CHOOSE m \in 1..Len(newLinks) :
                          /\ newLinks[m].url = custom[k].url
                          /\ \A n \in 1..(m - 1) :
                               newLinks[n].url # custom[k].url].order)
     ELSE custom[k]]

\* no element of links is an object of customLinks any more
Unaliased(links) == [k \in 1..Len(links) |-> [links[k] EXCEPT !.custom = 0]]

\* customLinks.filter(link => link.url !== url) moves the objects that stay
AfterFilter(links, custom, url) ==
  [k \in 1..Len(links) |->
     IF links[k].custom = 0 THEN links[k]
     ELSE [links[k] EXCEPT
             !.custom = @ - Cardinality({m \in 1..(@ - 1) :
                                           custom[m].url = url})]]

VARIABLES
  providerLinks,   \* the links the profile and its README hold
  socialLinks,     \* the displayed link list
  customLinks,     \* the customLinks state
  lsCustomLinks,   \* localStorage customLinks
  savedLinkOrder,  \* the savedLinkOrder state and localStorage linkOrder
  hiddenLinks,     \* localStorage hiddenLinks
  dragItem,        \* dragItem.current
  dragOverItem,    \* dragOverItem.current
  isDragging,      \* isDragging.current
  gesture,         \* the browser's drag gesture: none, dragging, dropped
  lkPending,       \* the profile fetches in flight, each with the
                   \* customLinks and savedLinkOrder its closure captured
  lkIssued,        \* the number of profile fetches started
  lkRemoved,       \* the urls removed and not added again
  lkEvent          \* the last handler that ran

linkVars == <<providerLinks, socialLinks, customLinks, lsCustomLinks,
              savedLinkOrder, hiddenLinks, dragItem, dragOverItem,
              isDragging, gesture, lkPending, lkIssued, lkRemoved, lkEvent>>

LkEv(kind, index) == [kind |-> kind, index |-> index]

\* the closure of one run of the effect at lines 143-273
Capture(custom, saved) == [customLinks |-> custom, savedLinkOrder |-> saved]

\* a changed customLinks or savedLinkOrder re-runs the effect
Refetch(pending, custom, saved) ==
  /\ lkIssued < MaxLinkFetches
  /\ lkIssued' = lkIssued + 1
  /\ lkPending' = pending \cup {Capture(custom, saved)}

\* fetchUserProfile continues with the responses to its two requests
fetchUserProfileLinks(f, ok) ==
  /\ f \in lkPending
  /\ lkEvent' = LkEv(IF ok THEN "profile" ELSE "profileFailed", NullIndex)
  /\ IF ok
     THEN LET combined == combinedLinks(providerLinks, f.customLinks,
                                        f.savedLinkOrder)
          IN /\ socialLinks' = combined
             /\ IF HasNoKeys(f.savedLinkOrder)
                THEN /\ savedLinkOrder' = OrderMap(combined)
                     /\ Refetch(lkPending \ {f}, customLinks,
                                OrderMap(combined))
                ELSE /\ lkPending' = lkPending \ {f}
                     /\ UNCHANGED <<savedLinkOrder, lkIssued>>
     ELSE /\ lkPending' = lkPending \ {f}
          /\ UNCHANGED <<socialLinks, savedLinkOrder, lkIssued>>
  /\ UNCHANGED <<providerLinks, customLinks, lsCustomLinks, hiddenLinks,
                 dragItem, dragOverItem, isDragging, gesture, lkRemoved>>

\* addCustomLink with a url and a title given at the prompts
addCustomLink(url) ==
  /\ Len(socialLinks) < MaxLinks
  /\ lkEvent' = LkEv("add", NullIndex)
  /\ LET order == Len(socialLinks)
         updatedLinks == Append(customLinks, Link(url, order))
         updatedSocialLinks ==
           Append(socialLinks, SocialLink(url, order, Len(updatedLinks)))
     IN /\ customLinks' = updatedLinks
        /\ lsCustomLinks' = updatedLinks
        /\ socialLinks' = updatedSocialLinks
        /\ savedLinkOrder' = OrderMap(updatedSocialLinks)
        /\ Refetch(lkPending, updatedLinks, OrderMap(updatedSocialLinks))
  /\ lkRemoved' = lkRemoved \ {url}
  /\ UNCHANGED <<providerLinks, hiddenLinks, dragItem, dragOverItem,
                 isDragging, gesture>>

\* removeLink(link.url) from the button of a displayed link
removeLink(url) ==
  /\ \E i \in 1..Len(socialLinks) : socialLinks[i].url = url
  /\ lkEvent' = LkEv("remove", NullIndex)
  /\ LET updatedLinks == WithoutUrl(customLinks, url)
         updatedSocialLinks ==
           AfterFilter(WithoutUrl(socialLinks, url), customLinks, url)
     IN /\ IF \E i \in 1..Len(customLinks) : customLinks[i].url = url
           THEN /\ customLinks' = updatedLinks
                /\ lsCustomLinks' = updatedLinks
                /\ UNCHANGED hiddenLinks
           ELSE /\ hiddenLinks' = Append(hiddenLinks, url)
                /\ UNCHANGED <<customLinks, lsCustomLinks>>
        /\ socialLinks' = updatedSocialLinks
        /\ savedLinkOrder' = OrderMap(updatedSocialLinks)
        /\ Refetch(lkPending, updatedLinks, OrderMap(updatedSocialLinks))
  /\ lkRemoved' = lkRemoved \cup {url}
  /\ UNCHANGED <<providerLinks, dragItem, dragOverItem, isDragging, gesture>>

\* handleDragStart(e, index)
handleDragStart(index) ==
  /\ gesture = "none"
  /\ index \in 0..(Len(socialLinks) - 1)
  /\ lkEvent' = LkEv("dragStart", index)
  /\ gesture' = "dragging"
  /\ dragItem' = index
  /\ isDragging' = TRUE
  /\ UNCHANGED <<providerLinks, socialLinks, customLinks, lsCustomLinks,
                 savedLinkOrder, hiddenLinks, dragOverItem, lkPending,
                 lkIssued, lkRemoved>>

\* handleDragEnter(e, index)
handleDragEnter(index) ==
  /\ gesture = "dragging"
  /\ index \in 0..(Len(socialLinks) - 1)
  /\ lkEvent' = LkEv("dragEnter", index)
  /\ dragOverItem' = IF ~isDragging \/ dragItem = index THEN dragOverItem
                     ELSE index
  /\ UNCHANGED <<providerLinks, socialLinks, customLinks, lsCustomLinks,
                 savedLinkOrder, hiddenLinks, dragItem, isDragging, gesture,
                 lkPending, lkIssued, lkRemoved>>

\* the body of handleDragEnd, with over the value of dragOverItem.current
\* when it is called
DragEnd(over) ==
  IF ~isDragging
  THEN /\ dragOverItem' = over
       /\ UNCHANGED <<socialLinks, customLinks, lsCustomLinks,
                      savedLinkOrder, dragItem, isDragging, lkPending,
                      lkIssued>>
  ELSE /\ isDragging' = FALSE
       /\ IF dragItem # NullIndex /\ over # NullIndex /\ dragItem # over
          THEN IF dragItem >= Len(socialLinks)
               THEN \* draggedItem is undefined: forEach throws on it
                    LET n == IF over >= Len(socialLinks)
                             THEN Len(socialLinks) ELSE over
                        mutated == Reindexed(socialLinks, n)
                    IN /\ socialLinks' = mutated
                       /\ customLinks' = Aliased(customLinks, mutated)
                       /\ dragOverItem' = over
                       /\ UNCHANGED <<lsCustomLinks, savedLinkOrder,
                                      dragItem, lkPending, lkIssued>>
               ELSE LET spliced == splicedLinks(socialLinks, dragItem, over)
                        newLinks == Reindexed(spliced, Len(spliced))
                        mutated == Aliased(customLinks, newLinks)
                        updated == updatedCustomLinks(mutated, newLinks)
                    IN /\ savedLinkOrder' = OrderMap(newLinks)
                       /\ IF updated # mutated
                          THEN /\ customLinks' = updated
                               /\ lsCustomLinks' = updated
                               /\ socialLinks' = Unaliased(newLinks)
                          ELSE /\ customLinks' = mutated
                               /\ socialLinks' = newLinks
                               /\ UNCHANGED lsCustomLinks
                       /\ Refetch(lkPending, customLinks',
                                  OrderMap(newLinks))
                       /\ dragItem' = NullIndex
                       /\ dragOverItem' = NullIndex
          ELSE /\ dragItem' = NullIndex
               /\ dragOverItem' = NullIndex
               /\ UNCHANGED <<socialLinks, customLinks, lsCustomLinks,
                              savedLinkOrder, lkPending, lkIssued>>

\* handleDrop(e, index): the drop event on a link
handleDrop(index) ==
  /\ gesture = "dragging"
  /\ index \in 0..(Len(socialLinks) - 1)
  /\ lkEvent' = LkEv("drop", index)
  /\ gesture' = "dropped"
  /\ DragEnd(index)
  /\ UNCHANGED <<providerLinks, hiddenLinks, lkRemoved>>

\* handleDragEnd: the dragend event that closes every gesture
handleDragEnd ==
  /\ gesture \in {"dragging", "dropped"}
  /\ lkEvent' = LkEv("dragEnd", NullIndex)
  /\ gesture' = "none"
  /\ DragEnd(dragOverItem)
  /\ UNCHANGED <<providerLinks, hiddenLinks, lkRemoved>>

LinksIdle ==
  /\ providerLinks = <<>> /\ socialLinks = <<>> /\ customLinks = <<>>
  /\ lsCustomLinks = <<>> /\ savedLinkOrder = NoOrder /\ hiddenLinks = <<>>
  /\ dragItem = NullIndex /\ dragOverItem = NullIndex /\ isDragging = FALSE
  /\ gesture = "none" /\ lkPending = {} /\ lkIssued = 0 /\ lkRemoved = {}
  /\ lkEvent = LkEv("none", NullIndex)

\* the sidebar mounts, on a first visit or on a later one with the custom
\* link and the order a previous visit persisted (lines 35-43); the effect
\* starts the first fetch
LinksInit ==
  /\ providerLinks \in ProviderLinkLists
  /\ socialLinks = <<>>
  /\ \/ customLinks = <<>> /\ savedLinkOrder = NoOrder
     \/ /\ customLinks = <<Link("c1", Len(providerLinks))>>
        /\ savedLinkOrder
             = OrderMap(combinedLinks(providerLinks, <<>>, NoOrder)
                          \o <<Link("c1", Len(providerLinks))>>)
  /\ lsCustomLinks = customLinks
  /\ hiddenLinks = <<>>
  /\ dragItem = NullIndex /\ dragOverItem = NullIndex /\ isDragging = FALSE
  /\ gesture = "none"
  /\ lkPending = {Capture(customLinks, savedLinkOrder)} /\ lkIssued = 1
  /\ lkRemoved = {}
  /\ lkEvent = LkEv("none", NullIndex)

LinksNext ==
  \/ \E f \in lkPending, ok \in BOOLEAN : fetchUserProfileLinks(f, ok)
  \/ \E url \in CustomUrls : addCustomLink(url)
  \/ \E url \in LinkUrls : removeLink(url)
  \/ \E index \in 0..(MaxLinks - 1) : handleDragStart(index)
  \/ \E index \in 0..(MaxLinks - 1) : handleDragEnter(index)
  \/ \E index \in 0..(MaxLinks - 1) : handleDrop(index)
  \/ handleDragEnd

(***************************************************************************)
(* App: the active username and the switch-user dialog                     *)
(***************************************************************************)
\* the longest text the visitor types into the dialog's input
MaxInput == 3

\* the characters the visitor types
InputChars == {" ", "a", "b"}

InputTexts == SeqsUpTo(InputChars, MaxInput)

\* line 8
defaultUsername == <<"d", "e", "v", "r", "a", "n", "b", "i", "r">>

VARIABLES
  activeUsername,     \* line 9: the username state, a text of characters
  showUsernameInput,  \* line 10
  inputValue,         \* the value of the mounted input (line 54-60), <<>>
                      \* while the dialog is not rendered
  appEvent            \* history: the last event the shell handled

appVars == <<activeUsername, showUsernameInput, inputValue, appEvent>>

AppEv(kind, value, before) ==
  [kind |-> kind, value |-> value, usernameBefore |-> before]

\* lines 15-17 and 70: Ctrl/Cmd+S or the switch-user button; the input
\* (rendered only while the dialog shows, line 45) mounts with
\* defaultValue={username} (line 58)
openUsernameInput ==
  /\ showUsernameInput' = TRUE
  /\ inputValue' = IF showUsernameInput THEN inputValue ELSE activeUsername
  /\ appEvent' = AppEv("open", <<>>, activeUsername)
  /\ UNCHANGED activeUsername

\* lines 18-19 and 63: Escape or the Cancel button
closeUsernameInput ==
  /\ showUsernameInput' = FALSE
  /\ inputValue' = <<>>
  /\ appEvent' = AppEv("close", <<>>, activeUsername)
  /\ UNCHANGED activeUsername

\* the visitor edits the uncontrolled input
typeUsername(text) ==
  /\ showUsernameInput
  /\ inputValue' = text
  /\ appEvent' = AppEv("type", text, activeUsername)
  /\ UNCHANGED <<activeUsername, showUsernameInput>>

\* lines 34-41; the form exists only while the dialog shows (line 45-48)
handleSubmit ==
  /\ showUsernameInput
  /\ LET newUsername == inputValue
     IN /\ IF newUsername # <<>>
           THEN /\ activeUsername' = Trim(newUsername)
                /\ showUsernameInput' = FALSE
                /\ inputValue' = <<>>
           ELSE UNCHANGED <<activeUsername, showUsernameInput, inputValue>>
        /\ appEvent' = AppEv("submit", newUsername, activeUsername)

AppIdle ==
  /\ activeUsername = defaultUsername
  /\ showUsernameInput = FALSE
  /\ inputValue = <<>>
  /\ appEvent = AppEv("none", <<>>, defaultUsername)

AppInit == AppIdle

AppNext ==
  \/ openUsernameInput
  \/ closeUsernameInput
  \/ \E text \in InputTexts : typeUsername(text)
  \/ handleSubmit

AuthIdle ==
  /\ env = Null /\ envAtStartup = Null /\ github_token = Null
  /\ pc = [p \in Paths |-> "idle"]
  /\ req = [p \in Paths |-> NoRequest]
  /\ reissues = [p \in Paths |-> 0]
  /\ prompts = [p \in Paths |-> 0]
  /\ loading = [p \in Paths |-> TRUE]
  /\ uiError = [p \in Paths |-> Null]
  /\ lastHandled = NoEvent

ProviderIdle == repoBranches = <<>>

\* the auth variables no enrichment writes
authRest == <<env, envAtStartup, pc, req, reissues, prompts, loading,
              uiError, lastHandled>>

vars == <<authVars, pureVars, viewerVars, providerVars, enrichVars,
          normVars, linkVars, appVars>>

\* the application shell: the three fetch paths over the token store
Init ==
  /\ AuthInit /\ PureIdle /\ ViewerIdle /\ ProviderIdle /\ EnrichIdle
  /\ NormIdle /\ LinksIdle /\ AppIdle

Next ==
  AuthNext
    /\ UNCHANGED <<pureVars, viewerVars, providerVars, enrichVars, normVars,
                   linkVars, appVars>>

Spec == Init /\ [][Next]_vars

\* the pure steps of content retrieval on drawn inputs
PureSpecInit ==
  PureInit /\ AuthIdle /\ ViewerIdle /\ ProviderIdle /\ EnrichIdle
    /\ NormIdle /\ LinksIdle /\ AppIdle

PureSpecNext ==
  PureNext
    /\ UNCHANGED <<authVars, viewerVars, providerVars, enrichVars, normVars,
                   linkVars, appVars>>

SpecPure == PureSpecInit /\ [][PureSpecNext]_vars

\* the content viewer over a token store fixed at startup
ViewerSpecInit ==
  /\ ViewerIdle /\ PureIdle /\ EnrichIdle /\ NormIdle /\ LinksIdle /\ AppIdle
  /\ repoBranches \in BranchLists
  /\ env \in EnvValues /\ envAtStartup = env
  /\ github_token \in PersistedValues
  /\ pc = [p \in Paths |-> "idle"]
  /\ req = [p \in Paths |-> NoRequest]
  /\ reissues = [p \in Paths |-> 0]
  /\ prompts = [p \in Paths |-> 0]
  /\ loading = [p \in Paths |-> TRUE]
  /\ uiError = [p \in Paths |-> Null]
  /\ lastHandled = NoEvent

ViewerSpecNext ==
  ViewerNext
    /\ UNCHANGED <<authVars, pureVars, providerVars, enrichVars, normVars,
                   linkVars, appVars>>

SpecViewer == ViewerSpecInit /\ [][ViewerSpecNext]_vars

\* the project list loads over the token store
EnrichSpecInit ==
  AuthInit /\ PureIdle /\ ViewerIdle /\ ProviderIdle /\ EnrichIdle
    /\ NormIdle /\ LinksIdle /\ AppIdle

EnrichSpecNext ==
  EnrichNext
    /\ UNCHANGED <<authRest, pureVars, viewerVars, providerVars, normVars,
                   linkVars, appVars>>

SpecEnrich == EnrichSpecInit /\ [][EnrichSpecNext]_vars

\* one enrichment probe runs on one repository
ProbeSpecInit ==
  AuthInit /\ PureIdle /\ ViewerIdle /\ ProviderIdle /\ ProbeInit
    /\ NormIdle /\ LinksIdle /\ AppIdle

ProbeSpecNext ==
  ProbeNext
    /\ UNCHANGED <<authRest, pureVars, viewerVars, providerVars, normVars,
                   linkVars, appVars>>

SpecProbe == ProbeSpecInit /\ [][ProbeSpecNext]_vars

\* the normalisers on drawn texts
NormSpecInit ==
  /\ NormInit /\ AuthIdle /\ PureIdle /\ ViewerIdle /\ ProviderIdle
  /\ EnrichIdle /\ LinksIdle /\ AppIdle

NormSpecNext ==
  NormNext
    /\ UNCHANGED <<authVars, pureVars, viewerVars, providerVars, enrichVars,
                   linkVars, appVars>>

SpecNormalize == NormSpecInit /\ [][NormSpecNext]_vars

\* the profile sidebar's links
LinksSpecInit ==
  /\ LinksInit /\ AuthIdle /\ PureIdle /\ ViewerIdle /\ ProviderIdle
  /\ EnrichIdle /\ NormIdle /\ AppIdle

LinksSpecNext ==
  LinksNext
    /\ UNCHANGED <<authVars, pureVars, viewerVars, providerVars, enrichVars,
                   normVars, appVars>>

SpecLinks == LinksSpecInit /\ [][LinksSpecNext]_vars

\* the application shell's switch-user dialog
AppSpecInit ==
  /\ AppInit /\ AuthIdle /\ PureIdle /\ ViewerIdle /\ ProviderIdle
  /\ EnrichIdle /\ NormIdle /\ LinksIdle

AppSpecNext ==
  AppNext
    /\ UNCHANGED <<authVars, pureVars, viewerVars, providerVars, enrichVars,
                   normVars, linkVars>>

SpecApp == AppSpecInit /\ [][AppSpecNext]_vars

(***************************************************************************)
(* Properties                                                              *)
(***************************************************************************)
Rejected(ev) == ev.path \in Paths /\ ev.status \in {401, 403}

\* C1: on every fetch path, when only a persisted credential is stored, the
\* request is rejected with 401/403 and the user supplies a new credential
\* when prompted, the persisted credential is cleared and the request is
\* re-issued exactly once.
C1_RejectionReissuedOnce ==
  (Rejected(lastHandled)
   /\ ~Truthy(lastHandled.envBefore)
   /\ Truthy(lastHandled.persistedBefore)
   /\ lastHandled.supplied)
  => (lastHandled.removed /\ lastHandled.reissued = 1)

\* C2: one user-initiated fetch is automatically re-issued at most once,
\* whatever the provider and the user answer.
C2_AtMostOneReissue == \A p \in Paths : reissues[p] <= 1

\* C3: the environment credential keeps its startup value, getGitHubToken
\* returns it whenever it is present and the persisted value only when it
\* is absent, and every request built by createHeaders carries it.
C3_EnvTokenPreferred ==
  /\ env = envAtStartup
  /\ getGitHubToken(env, github_token)
       = (IF Truthy(envAtStartup) THEN envAtStartup ELSE github_token)
  /\ \A p \in Paths :
       ((pc[p] \in {"inflight", "inflight2"} /\ Truthy(envAtStartup))
        => req[p].Authorization = envAtStartup)

C3_Witness ==
  /\ Truthy(env)
  /\ Rejected(lastHandled) /\ lastHandled.removed
  /\ github_token = Null
  /\ \E p \in Paths : pc[p] = "inflight" /\ req[p].Authorization = env

\* C4: the persisted credential is removed only when a 401/403 is handled
\* and no environment credential exists; with an environment credential
\* present, handling a 401/403 leaves the persisted credential unchanged.
C4_EnvKeepsPersisted ==
  /\ (lastHandled.removed
        => (Rejected(lastHandled) /\ ~Truthy(lastHandled.envBefore)))
  /\ ((Rejected(lastHandled) /\ Truthy(lastHandled.envBefore))
        => lastHandled.persistedAfter = lastHandled.persistedBefore)

\* C5: with an environment credential present, a 401/403 is surfaced at
\* once: no prompt is shown and the request is not re-issued, on any of the
\* three fetch paths.
C5_EnvRejectionSurfaced ==
  Truthy(env) =>
    /\ \A p \in Paths : (prompts[p] = 0 /\ reissues[p] = 0)
    /\ (Rejected(lastHandled) =>
          (/\ lastHandled.prompted = 0
           /\ lastHandled.reissued = 0
           /\ lastHandled.failed))

C5_Witness ==
  /\ Truthy(env)
  /\ Rejected(lastHandled) /\ lastHandled.path = "readme"
  /\ pc["readme"] = "error" /\ uiError["readme"] = "Authentication error"
  /\ pc["profile"] = "error" /\ pc["repos"] = "error"

\* the headers of every request in flight
RequestHeaders ==
  {req[p] : p \in {q \in Paths : pc[q] \in {"inflight", "inflight2"}}}
  \cup {r.headers : r \in BagToSet(inflight)}

\* C6: every request carries a Bearer Authorization header whenever a
\* credential (environment or persisted) existed when it was issued, and
\* none otherwise, whether built by createHeaders or by getAuthHeaders.
C6_BearerWheneverCredential ==
  \A h \in RequestHeaders :
    IF Truthy(h.envAtIssue) \/ Truthy(h.persistedAtIssue)
    THEN Truthy(h.Authorization)
         /\ h.Authorization \in {h.envAtIssue, h.persistedAtIssue}
    ELSE h.Authorization = Null

\* C7: a contents response that is a single object yields the one-element
\* sequence of that object, and one that is an array yields the same
\* entries in the same order, in the service and in the viewer.
C7_ListingNormalized ==
  (task = "listing" /\ step = "applied") =>
    /\ (listingBody.isArray =>
          (listing = listingBody.items /\ viewerListing = listingBody.items))
    /\ (~listingBody.isArray =>
          (/\ Len(listing) = 1 /\ listing[1] = listingBody.item
           /\ Len(viewerListing) = 1 /\ viewerListing[1] = listingBody.item))

C7_Witness ==
  /\ task = "listing" /\ step = "applied"
  /\ ~listingBody.isArray
  /\ listing = <<listingBody.item>>
  /\ listingBody.item.type = "file"

\* C8: the decode step returns the bytes that were encoded, whether the
\* envelope carries them as base64 (with any line breaks in the encoded
\* text) or as literal text in the content field.
C8_DecodeRoundTrip ==
  (task = "decode" /\ step = "applied") =>
    /\ body = payload
    /\ (envelope.encoding # "base64" => body = envelope.content)

C8_Witness ==
  /\ task = "decode" /\ step = "applied"
  /\ envelope.encoding = "base64"
  /\ Len(payload) = MaxBytes /\ body = payload
  /\ \E i \in 1..Len(envelope.content) : envelope.content[i] = NL
  /\ \E i \in 1..Len(payload) : payload[i] = 255

RECURSIVE SumCopies(_, _)
SumCopies(S, bag) ==
  IF S = {} THEN 0
  ELSE LET x == CHOOSE y \in S : TRUE
       IN CopiesIn(x, bag) + SumCopies(S \ {x}, bag)

\* the raw text requests in flight for the address of a file
TextRequestsFor(file, bag) ==
  SumCopies({r \in BagToSet(bag) :
               r.kind = "text" /\ r.path = file.path /\ r.ref = file.ref},
            bag)

\* C9: when the metadata response of a file fetch is not JSON, one raw text
\* fetch of the same address is issued; the file body becomes exactly the
\* text of that second response, and if that fetch fails the file is not
\* selected and an error is set.
C9_TextFallback ==
  [][/\ ((vEvent'.kind = "file" /\ vEvent'.outcome = "notjson") =>
           (/\ TextRequestsFor(vEvent'.req.file, inflight')
                 = TextRequestsFor(vEvent'.req.file, inflight) + 1
            /\ vIssued' = vIssued + 1))
     /\ ((vEvent'.kind = "text" /\ vEvent'.req.cause = "notjson") =>
           (/\ vIssued' = vIssued
            /\ IF vEvent'.outcome = "ok"
               THEN fileContent' = vEvent'.text
                    /\ selectedFile' = vEvent'.req.file
               ELSE selectedFile' = NoEntry /\ vError' # Null))]_vars

C9_Witness ==
  /\ vEvent.kind = "text" /\ vEvent.req.cause = "notjson"
  /\ vEvent.outcome = "ok"
  /\ fileContent = vEvent.text /\ fileContent # <<>>
  /\ selectedFile = vEvent.req.file

\* C10: a default resolved from a non-empty branch list is "main" if it is
\* listed at any position, else "master" if listed, else the first branch.
C10_DefaultBranch ==
  (task = "branches" /\ step = "applied"
   /\ capturedBranch = "main" /\ Len(branchData) > 0) =>
    resolvedBranch =
      (IF \E i \in 1..Len(branchData) : branchData[i] = "main" THEN "main"
       ELSE IF \E i \in 1..Len(branchData) : branchData[i] = "master"
       THEN "master"
       ELSE branchData[1])

C10_Witness ==
  /\ task = "branches" /\ step = "applied" /\ capturedBranch = "main"
  /\ Len(branchData) = 3
  /\ branchData[1] = "dev" /\ branchData[2] = "master"
  /\ branchData[3] = "main"
  /\ resolvedBranch = "main"

\* C11: once the viewer has received the (empty) branch list of a repository
\* without commits and is not loading, it shows the empty state: no error
\* banner, and an empty listing.
C11_EmptyRepositoryEmptyState ==
  (repoEmpty /\ isOpen /\ vEvent.listed /\ ~vLoading) =>
    (vError = Null /\ contents = <<>>)

\* the response recorded at position j of a probe found a package.json that
\* decodes and has a non-empty homepage
HasHomepage(mf, j) ==
  /\ mf.probed[j].status = 200
  /\ mf.probed[j].manifest.decodable
  /\ mf.probed[j].manifest.hasHomepage
  /\ mf.probed[j].manifest.homepage # <<>>

\* C12: the manifest probe requests the branches in listed order; it returns
\* the homepage, trimmed and then with its backticks removed, of the first
\* branch whose package.json decodes and has a non-empty homepage, and
\* requests no later branch; found is true exactly when a homepage is
\* returned.
C12_FirstHomepageInOrder ==
  LET mf == manifest[1]
      k == Len(mf.probed)
  IN /\ mf.requested = SubSeq(mf.branches, 1, Len(mf.requested))
     /\ (mf.pc = "done" /\ ~mf.failed) =>
          /\ Len(mf.requested) = k
          /\ \A j \in 1..(k - 1) : ~HasHomepage(mf, j)
          /\ IF k > 0 /\ HasHomepage(mf, k)
             THEN /\ mf.hasPackageJson
                  /\ mf.packageJsonHomepage
                       = StripBackticks(Trim(mf.probed[k].manifest.homepage))
             ELSE /\ ~mf.hasPackageJson
                  /\ k = Len(mf.branches)
          /\ (mf.hasPackageJson <=> mf.packageJsonHomepage # NullHomepage)

C12_Witness ==
  LET mf == manifest[1]
  IN /\ mf.pc = "done" /\ mf.branches = <<"dev", "main", "feat">>
     /\ mf.requested = <<"dev", "main">>
     /\ mf.probed[1].status = 404
     /\ mf.probed[2].manifest.homepage = <<" ", "u", Backtick>>
     /\ mf.hasPackageJson /\ mf.packageJsonHomepage = <<"u">>

\* C13: the manifest probe never raises: after a branch whose package.json
\* could not be fetched, decoded or parsed it goes on to the next branch,
\* and when the branches cannot be listed, or every branch has been tried
\* without a match, it returns not-found (found false, no homepage).
C13_ProbeNeverRaises ==
  LET mf == manifest[1]
  IN /\ ~mf.raised
     /\ (mf.pc = "branch" => Len(mf.requested) = Len(mf.probed) + 1)
     /\ (mf.pc = "done" =>
          /\ (mf.failed =>
                (/\ ~mf.hasPackageJson
                 /\ mf.packageJsonHomepage = NullHomepage
                 /\ mf.requested = <<>>))
          /\ ((~mf.failed
               /\ \A j \in 1..Len(mf.probed) : ~HasHomepage(mf, j)) =>
                (/\ Len(mf.probed) = Len(mf.branches)
                 /\ ~mf.hasPackageJson
                 /\ mf.packageJsonHomepage = NullHomepage)))

C13_Witness ==
  LET mf == manifest[1]
  IN /\ mf.pc = "done" /\ ~mf.failed /\ Len(mf.branches) = 3
     /\ Len(mf.probed) = 3
     /\ mf.probed[1].status = TransportFailure
     /\ mf.probed[2].status = 200 /\ ~mf.probed[2].manifest.decodable
     /\ mf.probed[3].status = 500
     /\ ~mf.hasPackageJson /\ mf.packageJsonHomepage = NullHomepage

\* the project record of the repository at position n of the listing
ProjectOf(n) ==
  CHOOSE r \in {projects[i] : i \in 1..Len(projects)} :
    r.name = repos[n].name

\* what the responses a probe received amount to
HtmlFetched(hp) ==
  hp.indexStatus = 200 \/ (hp.listed /\ someHtmlFile(hp.seen))

\* the records of a loaded project list agree with the html and manifest
\* enrichments, a failed one counting as false and as not-found
RecordsFollowProbes ==
  /\ lpError = Null /\ ~lpLoading
  /\ Len(projects) = Len(repos)
  /\ \A n \in 1..Len(repos) :
       /\ \E i \in 1..Len(projects) : projects[i].name = repos[n].name
       /\ ProjectOf(n).hasHtmlFile
            = (IF html[n].failed THEN FALSE ELSE HtmlFetched(html[n]))
       /\ ProjectOf(n).hasPackageJson
            = (IF manifest[n].failed THEN FALSE
               ELSE manifest[n].hasPackageJson)
       /\ ProjectOf(n).packageJsonHomepage
            = (IF manifest[n].failed THEN NullHomepage
               ELSE manifest[n].packageJsonHomepage)

\* C14 as stated: whatever enrichments fail, loading ends with one record
\* per repository in which a failed enrichment has its default (false, the
\* empty language, not-found) and a successful one its fetched value, and
\* only the repository listing can make loading fail.
C14_FailedEnrichmentsDefault ==
  /\ (lpPc = "error" => lpCall.thrown)
  /\ (lpPc = "done" =>
       /\ RecordsFollowProbes
       /\ \A n \in 1..Len(repos) :
            ProjectOf(n).primaryLanguage
              = (IF lang[n].failed THEN ""
                 ELSE primaryLanguageOf(lang[n].seen)))

\* the language a record shows: the detected label, else the language the
\* provider reports for the repository, else "Unknown"
ShownLanguage(repo, lg) ==
  LET detected == IF lg.failed THEN "" ELSE primaryLanguageOf(lg.seen)
  IN IF detected # "" THEN detected
     ELSE IF repo.language # Null THEN repo.language
     ELSE "Unknown"

\* C14 (amended): as above, except that the record's language is the
\* detected label when detection succeeds with a label, and otherwise
\* (detection failed or found no label) the language the provider reports
\* for the repository, or "Unknown" when it reports none.
C14_EnrichmentsDegrade ==
  /\ (lpPc = "error" => lpCall.thrown)
  /\ (lpPc = "done" =>
       /\ RecordsFollowProbes
       /\ \A n \in 1..Len(repos) :
            ProjectOf(n).primaryLanguage = ShownLanguage(repos[n], lang[n]))

C14_Witness ==
  /\ lpPc = "done" /\ Len(repos) = 2 /\ Len(projects) = 2
  /\ lpError = Null
  /\ html[1].failed /\ lang[1].failed /\ ~manifest[1].failed
  /\ manifest[1].hasPackageJson
  /\ ~html[2].failed /\ ~lang[2].failed /\ manifest[2].failed
  /\ ProjectOf(1).hasPackageJson /\ ~ProjectOf(1).hasHtmlFile
  /\ ProjectOf(2).hasHtmlFile /\ ProjectOf(2).primaryLanguage = "Python"
  /\ ~ProjectOf(2).hasPackageJson

\* the entry at position i of a listing is a file whose name has a "." and
\* whose lowercase suffix is in the table
HasKnownSuffix(items, i) ==
  /\ items[i].type = "file" /\ Len(items[i].name) > 1
  /\ languageMap(Lower(items[i].name[Len(items[i].name)])) \in LanguageLabels

TableLabel(items, i) == languageMap(Lower(items[i].name[Len(items[i].name)]))

LabelCount(items, label) ==
  Cardinality({i \in 1..Len(items) :
                 HasKnownSuffix(items, i) /\ TableLabel(items, i) = label})

FirstWith(items, label) ==
  CHOOSE i \in 1..Len(items) :
    /\ HasKnownSuffix(items, i) /\ TableLabel(items, i) = label
    /\ \A j \in 1..(i - 1) :
         ~(HasKnownSuffix(items, j) /\ TableLabel(items, j) = label)

\* the label with the highest count, on a tie the one met first
DominantLabel(items) ==
  LET present == {TableLabel(items, i) :
                    i \in {j \in 1..Len(items) : HasKnownSuffix(items, j)}}
  IN IF present = {} THEN ""
     ELSE CHOOSE label \in present :
            \A other \in present \ {label} :
              \/ LabelCount(items, label) > LabelCount(items, other)
              \/ /\ LabelCount(items, label) = LabelCount(items, other)
                 /\ FirstWith(items, label) < FirstWith(items, other)

\* C15: language detection on a fetched listing looks only at file entries
\* whose name contains a ".", maps the lowercase suffix after the last "."
\* through the fixed table, and returns the label counted most often, on a
\* tie the one met first in the listing, and the empty string when the
\* listing is empty or no entry has a suffix of the table.
C15_DominantLanguage ==
  (lang[1].pc = "done" /\ ~lang[1].failed) =>
    lang[1].value = DominantLabel(lang[1].seen)

\* a root entry of any type whose name ends in ".html", whatever its case
SomeHtmlEntry(items) ==
  \E i \in 1..Len(items) :
    /\ Len(items[i].name) > 1
    /\ Lower(items[i].name[Len(items[i].name)]) = "html"

\* C16 as stated: the live-page probe returns true when index.html exists
\* at the root, otherwise true exactly when some root entry's name ends in
\* ".html" in any case, and false when the root listing cannot be fetched.
C16_AnyHtmlEntry ==
  html[1].pc = "done" =>
    html[1].value
      = (IF html[1].indexStatus = 200 THEN TRUE
         ELSE IF html[1].listed THEN SomeHtmlEntry(html[1].seen)
         ELSE FALSE)

\* C16 (amended): the live-page probe returns true when index.html exists
\* at the root, otherwise true exactly when some file-typed root entry's
\* name ends in ".html" in any case, and false when the root listing cannot
\* be fetched.
C16_LivePageProbe ==
  html[1].pc = "done" =>
    html[1].value
      = (IF html[1].indexStatus = 200 THEN TRUE
         ELSE IF html[1].listed
         THEN \E i \in 1..Len(html[1].seen) :
                /\ html[1].seen[i].type = "file"
                /\ Len(html[1].seen[i].name) > 1
                /\ Lower(html[1].seen[i].name[Len(html[1].seen[i].name)])
                     = "html"
         ELSE FALSE)

C16_Witness ==
  /\ html[1].pc = "done" /\ html[1].indexStatus = 404 /\ html[1].listed
  /\ html[1].seen = <<Item("file", <<"a", "py">>),
                      Item("file", <<"a", "HTML">>)>>
  /\ html[1].value

\* C17: the viewer holds a file body only while a file is selected: with no
\* selected file the file body is empty, so that selecting another file,
\* navigating to a directory or changing branch leaves no earlier body.
C17_BodyOnlyWhileSelected ==
  selectedFile = NoEntry => fileContent = <<>>

\* the request of the response just handled was issued for another path or
\* branch than the viewer is at now
StaleResponse ==
  /\ vEvent'.kind \in {"contents", "file", "text"}
  /\ vEvent'.outcome # "fail"
  /\ \/ vEvent'.req.ref # currentBranch
     \/ vEvent'.kind = "contents" /\ vEvent'.req.path # currentPath
     \/ /\ vEvent'.kind \in {"file", "text"}
        /\ ParentPath(vEvent'.req.path) # currentPath

\* C18: a response that arrives after the user has moved to another
\* directory or branch is discarded: it changes neither the displayed
\* listing nor the selected file and its body.
C18_StaleResponseDiscarded ==
  [][StaleResponse =>
       (/\ contents' = contents
        /\ selectedFile' = selectedFile
        /\ fileContent' = fileContent)]_vars

\* the service listing calls whose outcome the state holds
ListingCalls == {lpCall} \cup {lang[n].call : n \in RepoIds}

C20_NotFoundNotReissued ==
  [][(vEvent'.kind = "file" /\ vEvent'.outcome = "notok") =>
       (vIssued' = vIssued /\ vError' # Null)]_vars

\* an anchor tag, and one that carries an explicit target="_blank"
IsAnchor(tag) == tag.open \in {"<a", "<A"}

HasTargetBlank(tag) ==
  \E i \in 1..Len(tag.attrs) :
    tag.attrs[i] \in {<<"target=", "\"_blank\"">>, <<"target=", "'_blank'">>}

\* the anchor tag with target="_blank" rel="noopener noreferrer" added
WithNewContext(tag) ==
  NewContext \o Tail(RenderAttrs(tag.attrs)) \o <<">">>

\* what the claim expects of one tag
ExpectedTag(tag) ==
  IF ~IsAnchor(tag) THEN processHtml(RenderTag(tag))
  ELSE IF HasTargetBlank(tag) THEN RenderTag(tag)
  ELSE IF tag.attrs = <<>> THEN NewContext \o <<">">>
  ELSE WithNewContext(tag)

\* C21: README normalisation adds target="_blank" rel="noopener noreferrer"
\* to every anchor tag without an explicit target="_blank" and leaves every
\* anchor tag that has one unchanged.
C21_AnchorsOpenNewContext ==
  (nTask = "html" /\ nStep = "applied") =>
    nOutput = Flatten([i \in 1..Len(nTags) |-> ExpectedTag(nTags[i])])

\* what the claim expects of one piece of a markdown body
ExpectedPiece(piece, ref) ==
  IF piece.kind = "image" /\ ~BeginsWithHttp(piece.target[1])
  THEN RawImage(piece.alt, ref, piece.target)
  ELSE RenderPiece(piece)

\* C22: markdown normalisation rewrites every relative image reference
\* ![alt](path) into the raw-content URL of the repository and ref being
\* viewed, keeping the alt text, and leaves every image reference whose
\* target begins with "http" unchanged.
C22_RelativeImagesRewritten ==
  (nTask = "markdown" /\ nStep = "applied") =>
    nOutput
      = Flatten([i \in 1..Len(nPieces) |-> ExpectedPiece(nPieces[i], nRef)])

\* C23: Go back from the error state of the content viewer always starts a
\* fresh fetch of the current directory.
C23_GoBackStartsFreshFetch ==
  [][(vEvent'.kind = "goBack" /\ vEvent'.outcome = "error") =>
       (/\ vIssued' = vIssued + 1 /\ vLoading'
        /\ CopiesIn(ContentsReq(currentPath, currentBranch, cbSelected),
                    inflight')
             = CopiesIn(ContentsReq(currentPath, currentBranch, cbSelected),
                        inflight) + 1)]_vars

\* C24: every contents request in flight was issued after the branch list
\* had been received and carries a ref that is a branch of the repository
\* (the branch selector is empty until the list is received, so a request
\* that fails this was issued without a choice of the user).
C24_RefFromBranchResolver ==
  \A r \in BagToSet(inflight) :
    r.kind = "contents" =>
      /\ vEvent.listed
      /\ \E i \in 1..Len(repoBranches) : repoBranches[i] = r.ref

C26_ProbesLeaveTokenStore ==
  [][/\ github_token' = github_token
     /\ \A n \in RepoIds : ~lang'[n].prompted]_vars

\* C27: right after a directory-listing fetch of the content viewer has
\* completed successfully, the error state is null, so that the listing it
\* fetched is what is displayed.
C27_ErrorClearedBySuccess ==
  (vEvent.kind = "contents" /\ vEvent.outcome \in {"array", "object"}) =>
    vError = Null

\* the urls of a list of links
UrlsOf(links) == {links[i].url : i \in 1..Len(links)}

\* C28: a link removed with removeLink(url), and not added again, is absent
\* from the displayed link list and from the persisted custom-link list, and
\* stays absent through every later profile re-fetch.
C28_RemovedLinkStaysAbsent ==
  \A u \in lkRemoved :
    u \notin UrlsOf(socialLinks) /\ u \notin UrlsOf(lsCustomLinks)

\* the urls of a list of links in order, and that list without the url at
\* index k (counted from 0)
UrlSeq(links) == [m \in 1..Len(links) |-> links[m].url]

Others(urls, k) ==
  [m \in 1..(Len(urls) - 1) |-> IF m <= k THEN urls[m] ELSE urls[m + 1]]

\* a drop on index j that ends a drag of the link at index i, j # i
DropEndsDrag ==
  /\ lkEvent'.kind = "drop" /\ isDragging
  /\ dragItem \in 0..(Len(socialLinks) - 1)
  /\ lkEvent'.index # dragItem

\* C29: a drag of the link at index i that ends on index j # i leaves the
\* dragged link at index j and the other links in their order, makes every
\* link's order field and its persisted per-url order equal to its index and
\* resets the drag references; the drag-end event that follows the drop
\* does not reorder again.
C29_DragReorders ==
  [][/\ DropEndsDrag =>
          /\ Len(socialLinks') = Len(socialLinks)
          /\ socialLinks'[lkEvent'.index + 1].url
               = socialLinks[dragItem + 1].url
          /\ Others(UrlSeq(socialLinks'), lkEvent'.index)
               = Others(UrlSeq(socialLinks), dragItem)
          /\ \A k \in 1..Len(socialLinks') :
               /\ socialLinks'[k].order = k - 1
               /\ savedLinkOrder'[socialLinks'[k].url] = k - 1
          /\ dragItem' = NullIndex /\ dragOverItem' = NullIndex
          /\ ~isDragging'
     /\ (lkEvent'.kind = "dragEnd" /\ gesture = "dropped") =>
          (socialLinks' = socialLinks /\ savedLinkOrder' = savedLinkOrder)
    ]_vars

\* C30: the active username is never the empty string: a submit of the
\* switch-user form with an empty or whitespace-only value leaves the
\* username unchanged and the dialog open, and a submit with a non-blank value
\* sets the username to the trimmed value and closes the dialog.
C30_UsernameNeverEmpty ==
  /\ activeUsername # <<>>
  /\ appEvent.kind = "submit" =>
       IF Trim(appEvent.value) = <<>>
       THEN activeUsername = appEvent.usernameBefore /\ showUsernameInput
       ELSE activeUsername = Trim(appEvent.value) /\ ~showUsernameInput

====
